---- MODULE Spec2Model ----
(***************************************************************************)
(* Snapshot image comparison: the compare_snapshots task, its comparison   *)
(* record, the pixel-budgeted batching and the per-image pipeline.         *)
(*                                                                         *)
(* Image names are sequences of character codes ("a" is <<97>>), so that   *)
(* Python's string order and the path-stem conversion are computed, not    *)
(* assumed.                                                                *)
(***************************************************************************)
EXTENDS Integers, Sequences, FiniteSets, TLC

\* ------------------------------------------------------------------ bounds

\* Concurrent compare_snapshots invocations for the one (head, base) pair.
NumInv == 2

\* _create_pixel_batches inputs: longest candidate list.
MaxItems == 3

\* Threads sharing one OdiffServer.
NumThreads == 2

\* Children one OdiffServer spawns.
MaxChildren == 2

\* Requests one OdiffServer sends.
MaxRequests == 2

\* ------------------------------------------------------- program constants

MAX_DIFF_PIXELS == 40000000

MAX_PIXELS_PER_BATCH == 40000000

\* Character codes that the path-stem conversion treats specially.
BACKSLASH == 92

SLASH == 47

DOT == 46

\* ------------------------------------------------------------------ values

Invs == 1..NumInv

PENDING == "PENDING"

PROCESSING == "PROCESSING"

SUCCESS == "SUCCESS"

FAILED == "FAILED"

INTERNAL_ERROR == "INTERNAL_ERROR"

\* Python's None for a string-valued field.
None == "None"

\* ------------------------------------------------------- sequence helpers

\* Mutant: the first argument, whatever the second is.
FirstOf(a, b) == a

Max(a, b) == IF a >= b THEN a ELSE b

\* Python's str < str: lexicographic by code point, a proper prefix first.
RECURSIVE StrLess(_, _)
StrLess(a, b) ==
    IF b = <<>> THEN FALSE
    ELSE IF a = <<>> THEN TRUE
    ELSE IF Head(a) # Head(b) THEN Head(a) < Head(b)
    ELSE StrLess(Tail(a), Tail(b))

\* Mutant: the names of a set in descending string order.
RECURSIVE SortedReverse(_)
SortedReverse(S) ==
    IF S = {} THEN <<>>
    ELSE LET m == CHOOSE x \in S : \A y \in S \ {x} : StrLess(y, x)
         IN  <<m>> \o SortedReverse(S \ {m})

\* sorted(names): the names of a set in ascending string order.
RECURSIVE Sorted(_)
Sorted(S) ==
    IF S = {} THEN <<>>
    ELSE LET m == CHOOSE x \in S : \A y \in S \ {x} : StrLess(x, y)
         IN  <<m>> \o Sorted(S \ {m})

RECURSIVE Flatten(_)
Flatten(seqs) ==
    IF seqs = <<>> THEN <<>> ELSE Head(seqs) \o Flatten(Tail(seqs))

RECURSIVE SumPixels(_)
SumPixels(items) ==
    IF items = <<>> THEN 0 ELSE Head(items).pixel_count + SumPixels(Tail(items))

\* ------------------------------------------------------------- path stems

\* str.replace("\\", "/")
ReplaceBackslash(name) ==
    [k \in 1..Len(name) |-> IF name[k] = BACKSLASH THEN SLASH ELSE name[k]]

\* str.strip("/")
RECURSIVE StripLeft(_)
StripLeft(s) ==
    IF s # <<>> /\ Head(s) = SLASH THEN StripLeft(Tail(s)) ELSE s

RECURSIVE StripRight(_)
StripRight(s) ==
    IF s # <<>> /\ s[Len(s)] = SLASH THEN StripRight(SubSeq(s, 1, Len(s) - 1)) ELSE s

\* _image_name_to_path_stem: normalise separators, strip slashes, drop what
\* follows the last dot.
ImageNameToPathStem(name) ==
    LET normalized == StripRight(StripLeft(ReplaceBackslash(name)))
        dots == {k \in 1..Len(normalized) : normalized[k] = DOT}
    IN  IF dots = {} THEN normalized
        ELSE LET last == CHOOSE k \in dots : \A j \in dots : j <= k
             IN  SubSeq(normalized, 1, last - 1)

\* ---------------------------------------------------------------- batching

DiffCandidate(name, head_hash, base_hash, pixel_count) ==
    [name |-> name, head_hash |-> head_hash, base_hash |-> base_hash,
     pixel_count |-> pixel_count]

\* The loop of _create_pixel_batches from item k on.
RECURSIVE PixelBatchLoop(_, _, _, _, _, _)
PixelBatchLoop(items, k, max_pixels_per_batch, batches, current_batch, current_pixels) ==
    IF k > Len(items)
    THEN IF current_batch # <<>> THEN Append(batches, current_batch) ELSE batches
    ELSE LET item == items[k]
             pixels == item.pixel_count
         IN  IF current_pixels + pixels > max_pixels_per_batch /\ current_batch # <<>>
             THEN PixelBatchLoop(items, k + 1, max_pixels_per_batch,
                                 Append(batches, current_batch), <<item>>, pixels)
             ELSE PixelBatchLoop(items, k + 1, max_pixels_per_batch,
                                 batches, Append(current_batch, item),
                                 current_pixels + pixels)

\* Mutant: the batch still open when the loop ends is not appended.
CreatePixelBatchesNoFlush(items, max_pixels_per_batch) ==
    LET full == PixelBatchLoop(items, 1, max_pixels_per_batch, <<>>, <<>>, 0)
    IN  IF full = <<>> THEN full ELSE SubSeq(full, 1, Len(full) - 1)

\* Mutant: the budget is taken one pixel too large.
CreatePixelBatchesWideBudget(items, max_pixels_per_batch) ==
    PixelBatchLoop(items, 1, max_pixels_per_batch + 1, <<>>, <<>>, 0)

\* Mutant: the budget is taken one pixel too small.
CreatePixelBatchesNarrowBudget(items, max_pixels_per_batch) ==
    PixelBatchLoop(items, 1, max_pixels_per_batch - 1, <<>>, <<>>, 0)

CreatePixelBatches(items, max_pixels_per_batch) ==
    PixelBatchLoop(items, 1, max_pixels_per_batch, <<>>, <<>>, 0)

\* --------------------------------------------------------------- manifests

\* One entry of SnapshotManifest.images: content hash -> ImageMetadata.  A
\* manifest is the sequence of its entries in dict order, hashes distinct.
ImageMetadata(hash, image_file_name, width, height) ==
    [hash |-> hash, image_file_name |-> image_file_name,
     width |-> width, height |-> height]

\* images[hash]
MetaOf(images, hash) ==
    images[CHOOSE k \in DOMAIN images : images[k].hash = hash]

\* {meta.image_file_name: h for h, meta in images.items()}: the last entry of
\* a name wins.
ByName(images) ==
    [n \in {images[k].image_file_name : k \in DOMAIN images} |->
        LET last == CHOOSE k \in DOMAIN images :
                        /\ images[k].image_file_name = n
                        /\ \A j \in DOMAIN images :
                               images[j].image_file_name = n => j <= k
        IN  images[last].hash]

Matched(head_images, base_images) ==
    DOMAIN ByName(head_images) \cap DOMAIN ByName(base_images)

\* Mutant: a head name counts as added when its hash is not in base.
AddedByHash(head_images, base_images) ==
    {head_images[k].image_file_name : k \in
        {j \in DOMAIN head_images :
            \A b \in DOMAIN base_images : base_images[b].hash # head_images[j].hash}}

Added(head_images, base_images) ==
    DOMAIN ByName(head_images) \ DOMAIN ByName(base_images)

Removed(head_images, base_images) ==
    DOMAIN ByName(base_images) \ DOMAIN ByName(head_images)

\* Locals of the classification loop before any name is visited.
ClassifyStart ==
    [image_results |-> <<>>, unchanged_count |-> 0, error_count |-> 0,
     eligible |-> <<>>]

\* for name in sorted(matched): hash-equal names are unchanged, oversized
\* ones errored, the rest become candidates.
RECURSIVE ClassifyLoop(_, _, _, _)
ClassifyLoop(head_images, base_images, names, acc) ==
    IF names = <<>> THEN acc
    ELSE
      LET name == Head(names)
          head_hash == ByName(head_images)[name]
          base_hash == ByName(base_images)[name]
          head_meta == MetaOf(head_images, head_hash)
          base_meta == MetaOf(base_images, base_hash)
          head_pixels == head_meta.width * head_meta.height
          base_pixels == base_meta.width * base_meta.height
          pixel_count == Max(head_pixels, base_pixels)
          next ==
            IF head_hash = base_hash
            THEN [acc EXCEPT
                    !.unchanged_count = @ + 1,
                    !.image_results = (name :> [status |-> "unchanged",
                                                head_hash |-> head_hash,
                                                base_hash |-> base_hash]) @@ @]
            ELSE IF pixel_count > MAX_DIFF_PIXELS
            THEN [acc EXCEPT
                    !.error_count = @ + 1,
                    !.image_results = (name :> [status |-> "errored",
                                                head_hash |-> head_hash,
                                                base_hash |-> base_hash,
                                                reason |-> "exceeds_pixel_limit"]) @@ @]
            ELSE [acc EXCEPT
                    !.eligible = Append(@, DiffCandidate(name, head_hash,
                                                         base_hash, pixel_count))]
      IN  ClassifyLoop(head_images, base_images, Tail(names), next)

Classify(head_images, base_images) ==
    ClassifyLoop(head_images, base_images,
                 Sorted(Matched(head_images, base_images)), ClassifyStart)

\* for name in sorted(added) / sorted(removed): the entries written after the
\* batches.
RECURSIVE AddedLoop(_, _, _)
AddedLoop(head_images, names, image_results) ==
    IF names = <<>> THEN image_results
    ELSE AddedLoop(head_images, Tail(names),
                   (Head(names) :> [status |-> "added",
                                    head_hash |-> ByName(head_images)[Head(names)]])
                   @@ image_results)

RECURSIVE RemovedLoop(_, _, _)
RemovedLoop(base_images, names, image_results) ==
    IF names = <<>> THEN image_results
    ELSE LET base_hash == ByName(base_images)[Head(names)]
             base_meta == MetaOf(base_images, base_hash)
         IN  RemovedLoop(base_images, Tail(names),
                         (Head(names) :> [status |-> "removed",
                                          base_hash |-> base_hash,
                                          before_width |-> base_meta.width,
                                          before_height |-> base_meta.height])
                         @@ image_results)

\* ------------------------------------------------------------------- state

VARIABLES
    rows,             \* the PreprodSnapshotComparison table (a set of rows)
    next_id,          \* the table's next primary key
    head_manifest,    \* images of the stored head manifest
    base_manifest,    \* images of the stored base manifest
    mask_blobs,       \* diff masks in the object store: key -> content
    comparison_blob,  \* comparison.json in the object store: <<>> or <<content>>
    pc,               \* where each invocation stands
    comparison,       \* each invocation's in-memory record: <<>> or <<row>>
    created,          \* each invocation's `created` flag
    exc,              \* the exception each invocation is unwinding with
    outcome,          \* how each invocation ended
    effects,          \* what each invocation did: manifest loads, spawns, puts
    loaded,           \* how each invocation's manifest load came out
    run               \* the locals of each invocation's comparison run

taskVars == <<rows, next_id, head_manifest, base_manifest, mask_blobs,
              comparison_blob, pc, comparison, created, exc, outcome, effects,
              loaded, run>>

\* A call of _create_pixel_batches on its own.
VARIABLES
    batch_input,      \* the candidate list passed
    batch_budget,     \* max_pixels_per_batch passed
    batch_output,     \* the batches returned
    batch_pc          \* "idle", "call" or "returned"

batchVars == <<batch_input, batch_budget, batch_output, batch_pc>>

\* One OdiffServer instance and the threads that use it.
VARIABLES
    process,          \* self._process: 0 (None) or the child held
    request_id,       \* self._request_id
    lock,             \* self._lock: 0 (free) or the thread holding it
    children,         \* every child spawned so far, by its number
    threads,          \* each thread's position and its local `proc`
    last_call,        \* the call that ended last: who, what, how, which child
    written_ids       \* the requestId of every request passed to stdin.write

odiffVars == <<process, request_id, lock, children, threads, last_call,
               written_ids>>

\* Calls of compare_images_batch and compare_images on their own, with no
\* server passed.
VARIABLES
    cmp_pairs,        \* the pairs passed to compare_images_batch
    cmp_engine,       \* the engine: whether it starts, its reply to each pair
    cmp_batch,        \* <<>> or what compare_images_batch(cmp_pairs) came to
    cmp_single,       \* <<>> or a call compare_images(before, after), with
                      \* what it came to
    cmp_pc            \* "idle", or "call" when the comparator is being called

compareVars == <<cmp_pairs, cmp_engine, cmp_batch, cmp_single, cmp_pc>>

\* A call of categorize_comparison_images on its own.
VARIABLES
    cat_images,       \* comparison_data.images: name -> ComparisonImageResult
    cat_heads,        \* the names head_images_by_file_name has
    cat_result,       \* <<>> or the CategorizedComparison returned
    cat_pc            \* "idle", "call" or "returned"

categorizeVars == <<cat_images, cat_heads, cat_result, cat_pc>>

\* A call of compare_images_batch seen step by step, with the files of its
\* temporary directory.
VARIABLES
    tmp_pc,           \* "idle", "call", the step of the pair at hand, "exit",
                      \* "returned" or "raised"
    tmp_n,            \* len(pairs)
    tmp_own,          \* whether server is None (the call enters its own)
    tmp_idx,          \* idx of the pair at hand
    tmpdir,           \* "none", "exists" or "removed"
    tmp_files,        \* the directory's files: path -> idx of the pair whose
                      \* step wrote it last
    tmp_requests,     \* the requests written, with whether they were answered
    tmp_reads,        \* the output files read, each with the reading pair's idx
    tmp_results       \* "result" or "none" for each pair done

filesVars == <<tmp_pc, tmp_n, tmp_own, tmp_idx, tmpdir, tmp_files,
               tmp_requests, tmp_reads, tmp_results>>

\* What the task's steps leave alone, and what the calls of the other
\* components leave alone.
nonTaskVars == <<batchVars, odiffVars, compareVars, categorizeVars, filesVars>>

nonBatchVars == <<taskVars, odiffVars, compareVars, categorizeVars, filesVars>>

nonOdiffVars == <<taskVars, batchVars, compareVars, categorizeVars, filesVars>>

nonCompareVars == <<taskVars, batchVars, odiffVars, categorizeVars, filesVars>>

nonCategorizeVars == <<taskVars, batchVars, odiffVars, compareVars, filesVars>>

nonFilesVars == <<taskVars, batchVars, odiffVars, compareVars, categorizeVars>>

vars == <<taskVars, batchVars, odiffVars, compareVars, categorizeVars, filesVars>>

\* The storage key of the pair's comparison manifest (org, project and the
\* two artifact ids are fixed).
ComparisonKey == "comparison.json"

\* A freshly inserted row.
NewRow(id, state) ==
    [id |-> id, state |-> state, error_code |-> None,
     images_changed |-> 0, images_unchanged |-> 0,
     images_added |-> 0, images_removed |-> 0,
     comparison_key |-> None]

\* The locals of a run that has not started (or has returned).
EmptyRun ==
    [server |-> "none", b |-> 0, k |-> 0,
     image_results |-> <<>>, changed_count |-> 0, unchanged_count |-> 0,
     error_count |-> 0,
     diff_pairs |-> <<>>, batch_names |-> <<>>, batch_hashes |-> <<>>,
     diff_results |-> <<>>, seen |-> <<>>]

\* eligible and batches are functions of the manifests the run loaded.
\* Mutant: every matched name becomes a candidate.
EligibleAllMatched ==
    LET names == Sorted(Matched(head_manifest, base_manifest))
    IN  [k \in 1..Len(names) |->
            DiffCandidate(names[k], ByName(head_manifest)[names[k]],
                          ByName(base_manifest)[names[k]], 0)]

Eligible == Classify(head_manifest, base_manifest).eligible

Batches == CreatePixelBatches(Eligible, MAX_PIXELS_PER_BATCH)

\* ------------------------------------------------------------- scenarios

\* Three 20 MP candidates in two batches, a hash-equal name, an added and a
\* removed name, an oversized pair, and a second added and removed name listed
\* after the first.  Names: "a.p" "b.p" "c.p" "u.p" "n.p" "o.p" "r.p" "m.p"
\* "q.p".
MixedHead ==
    << ImageMetadata("h1", <<97, 46, 112>>, 5000, 4000),
       ImageMetadata("h2", <<98, 46, 112>>, 5000, 4000),
       ImageMetadata("h3", <<99, 46, 112>>, 4000, 5000),
       ImageMetadata("h4", <<117, 46, 112>>, 10, 10),
       ImageMetadata("h5", <<110, 46, 112>>, 20, 20),
       ImageMetadata("h6", <<111, 46, 112>>, 8000, 5001),
       ImageMetadata("h0", <<109, 46, 112>>, 10, 10) >>

MixedBase ==
    << ImageMetadata("g1", <<97, 46, 112>>, 5000, 4000),
       ImageMetadata("g2", <<98, 46, 112>>, 4000, 4000),
       ImageMetadata("g3", <<99, 46, 112>>, 5000, 4000),
       ImageMetadata("h4", <<117, 46, 112>>, 10, 10),
       ImageMetadata("g5", <<114, 46, 112>>, 30, 30),
       ImageMetadata("g6", <<111, 46, 112>>, 100, 100),
       ImageMetadata("g0", <<113, 46, 112>>, 10, 10) >>

\* Nothing to compare pixel by pixel.
PlainHead ==
    << ImageMetadata("h4", <<117, 46, 112>>, 10, 10),
       ImageMetadata("h5", <<110, 46, 112>>, 20, 20) >>

PlainBase ==
    << ImageMetadata("h4", <<117, 46, 112>>, 10, 10),
       ImageMetadata("g5", <<114, 46, 112>>, 30, 30) >>

\* One candidate ("a.p") and a removed name.
TinyHead ==
    << ImageMetadata("h1", <<97, 46, 112>>, 30, 30) >>

TinyBase ==
    << ImageMetadata("g1", <<97, 46, 112>>, 50, 50),
       ImageMetadata("g5", <<114, 46, 112>>, 30, 30) >>

\* A candidate of exactly MAX_DIFF_PIXELS ("e.p"), a name listed under two
\* hashes in head of which the last equals base's ("d.p"), one hash listed
\* under different names in head and base ("x.p", "y.p"), and a pair that
\* is oversized in base only ("p.p").
LimitHead ==
    << ImageMetadata("h7", <<101, 46, 112>>, 8000, 5000),
       ImageMetadata("h8", <<100, 46, 112>>, 10, 10),
       ImageMetadata("h9", <<100, 46, 112>>, 20, 20),
       ImageMetadata("s1", <<120, 46, 112>>, 10, 10),
       ImageMetadata("h10", <<112, 46, 112>>, 10, 10) >>

LimitBase ==
    << ImageMetadata("g7", <<101, 46, 112>>, 10, 10),
       ImageMetadata("h9", <<100, 46, 112>>, 20, 20),
       ImageMetadata("s1", <<121, 46, 112>>, 10, 10),
       ImageMetadata("g10", <<112, 46, 112>>, 8000, 5001) >>

\* Two candidates whose names differ after the last dot only ("a.p", "a.q"),
\* the first of 8000 x 5000 in head and 5000 x 8000 in base.
ClashHead ==
    << ImageMetadata("h1", <<97, 46, 112>>, 8000, 5000),
       ImageMetadata("h2", <<97, 46, 113>>, 30, 30) >>

ClashBase ==
    << ImageMetadata("g1", <<97, 46, 112>>, 5000, 8000),
       ImageMetadata("g2", <<97, 46, 113>>, 30, 30) >>

\* The manifests of the concurrent invocations' pair.
Scenarios == { <<TinyHead, TinyBase>>, <<PlainHead, PlainBase>> }

\* The manifests of a single run.
RunScenarios == { <<MixedHead, MixedBase>>, <<TinyHead, TinyBase>>,
                  <<PlainHead, PlainBase>>, <<LimitHead, LimitBase>>,
                  <<ClashHead, ClashBase>> }

\* -------------------------------------------------------------------- Init

\* A thread that is inside no call.
IdleThread == [pc |-> "idle", proc |-> 0, sent |-> 0]

\* The record of a call that ended: `result` is the exception it raised or
\* what it returned, `child` the child it wrote to, started or closed.
Call(t, call, result, child) ==
    [thread |-> t, call |-> call, result |-> result, child |-> child]

\* OdiffServer.__init__: no child, no request sent, the lock free.
OdiffInit ==
    /\ process = 0
    /\ request_id = 0
    /\ lock = 0
    /\ children = <<>>
    /\ threads = [t \in 1..NumThreads |-> IdleThread]
    /\ last_call = Call(0, None, None, 0)
    /\ written_ids = <<>>

\* No call of _create_pixel_batches on its own is under way.
BatchIdle ==
    /\ batch_input = <<>>
    /\ batch_budget = 0
    /\ batch_output = <<>>
    /\ batch_pc = "idle"

\* No call of the comparator on its own is under way.
CompareIdle ==
    /\ cmp_pairs = <<>>
    /\ cmp_engine = <<>>
    /\ cmp_batch = <<>>
    /\ cmp_single = <<>>
    /\ cmp_pc = "idle"

\* No step-by-step call of compare_images_batch is under way.
FilesIdle ==
    /\ tmp_pc = "idle"
    /\ tmp_n = 0
    /\ tmp_own = FALSE
    /\ tmp_idx = 0
    /\ tmpdir = "none"
    /\ tmp_files = <<>>
    /\ tmp_requests = <<>>
    /\ tmp_reads = {}
    /\ tmp_results = <<>>

\* No call of categorize_comparison_images is under way.
CategorizeIdle ==
    /\ cat_images = <<>>
    /\ cat_heads = {}
    /\ cat_result = <<>>
    /\ cat_pc = "idle"

\* The invocations are dispatched; the pair has no record yet, or one in
\* PENDING.
Init ==
    /\ BatchIdle
    /\ OdiffInit
    /\ FilesIdle
    /\ CompareIdle
    /\ CategorizeIdle
    /\ \E s \in Scenarios : head_manifest = s[1] /\ base_manifest = s[2]
    /\ \E seeded \in BOOLEAN :
          /\ rows = IF seeded THEN {NewRow(1, PENDING)} ELSE {}
          /\ next_id = IF seeded THEN 2 ELSE 1
    /\ mask_blobs = <<>>
    /\ comparison_blob = <<>>
    /\ pc = [i \in Invs |-> "start"]
    /\ comparison = [i \in Invs |-> <<>>]
    /\ created = [i \in Invs |-> FALSE]
    /\ exc = [i \in Invs |-> None]
    /\ outcome = [i \in Invs |-> None]
    /\ effects = [i \in Invs |-> {}]
    /\ loaded = [i \in Invs |-> None]
    /\ run = [i \in Invs |-> EmptyRun]

\* ------------------------------------------------------- database helpers

\* The unique constraint on (head_snapshot_metrics, base_snapshot_metrics):
\* an insert for a pair that has a row raises IntegrityError.
UniqueViolation(table) == table # {}

\* filter(head_snapshot_metrics=..., base_snapshot_metrics=...).first()
ExistingRow(table) == CHOOSE r \in table : TRUE

\* Mutants: the conditional update also takes rows in PROCESSING, or in
\* SUCCESS.
RetryableStatesWithProcessing == {PENDING, FAILED, PROCESSING}

RetryableStatesWithSuccess == {PENDING, FAILED, SUCCESS}

\* state__in=[...] of the conditional update.
RetryableStates == {PENDING, FAILED}

\* Mutant: the rows are matched but not written.
ConditionalUpdateNoWrite(table, id) == table

\* filter(id=..., state__in=[PENDING, FAILED]).update(state=PROCESSING): the
\* table after the update.
ConditionalUpdate(table, id) ==
    {IF r.id = id /\ r.state \in RetryableStates
     THEN [r EXCEPT !.state = PROCESSING] ELSE r : r \in table}

\* Mutant: the update's row count is not looked at (the early return is lost).
UpdatedIgnored(table, id) == 1

\* The number of rows the conditional update changes.
Updated(table, id) ==
    Cardinality({r \in table : r.id = id /\ r.state \in RetryableStates})

\* How comparison.save(update_fields=[...]) can come out: the update is
\* written or the database raises; with the row gone no row is affected and
\* the save raises.
SaveOutcomes(table, obj) ==
    IF \E r \in table : r.id = obj.id THEN BOOLEAN ELSE {FALSE}

\* Mutant: the save writes nothing.
SaveStateLost(table, obj) == table

\* comparison.save(update_fields=["state", "error_code", "date_updated"])
SaveState(table, obj) ==
    {IF r.id = obj.id
     THEN [r EXCEPT !.state = obj.state, !.error_code = obj.error_code]
     ELSE r : r \in table}

\* comparison.save(update_fields=[state, error_code, images_*, extras, ...])
SaveAll(table, obj) ==
    {IF r.id = obj.id THEN obj ELSE r : r \in table}

\* --------------------------------------------------------- control helpers

\* The invocation returns (normally, or raising exc[i]) as `how`.
Return(i, how) ==
    /\ pc' = [pc EXCEPT ![i] = "done"]
    /\ outcome' = [outcome EXCEPT ![i] = how]
    /\ run' = [run EXCEPT ![i] = EmptyRun]

\* An exception leaves the try body: the with-block (if entered) closes the
\* engine, and the handler runs next.
Raise(i, e) ==
    /\ pc' = [pc EXCEPT ![i] = "except"]
    /\ exc' = [exc EXCEPT ![i] = e]
    /\ run' = [run EXCEPT ![i].server =
                  IF @ = "running" THEN "closed" ELSE @]
    /\ UNCHANGED outcome

\* ----------------------------------------------------- record-state gate

\* PreprodArtifact / PreprodSnapshotMetrics lookups.
LookupArtifacts(i) ==
    /\ pc[i] = "start"
    /\ \E found \in BOOLEAN :
          IF found
          THEN /\ pc' = [pc EXCEPT ![i] = "get_or_create"]
               /\ UNCHANGED <<outcome, run>>
          ELSE Return(i, "not_found")
    /\ UNCHANGED nonTaskVars
    /\ UNCHANGED <<loaded, rows, next_id, head_manifest, base_manifest, mask_blobs,
                   comparison_blob, comparison, created, exc, effects>>

\* get_or_create: the lookup.
GetOrCreateGet(i) ==
    /\ pc[i] = "get_or_create"
    /\ IF rows # {}
       THEN /\ comparison' = [comparison EXCEPT ![i] = <<ExistingRow(rows)>>]
            /\ created' = [created EXCEPT ![i] = FALSE]
            /\ pc' = [pc EXCEPT ![i] = "gate"]
       ELSE /\ pc' = [pc EXCEPT ![i] = "create"]
            /\ UNCHANGED <<comparison, created>>
    /\ UNCHANGED nonTaskVars
    /\ UNCHANGED <<loaded, rows, next_id, head_manifest, base_manifest, mask_blobs,
                   comparison_blob, exc, outcome, effects, run>>

\* get_or_create: the insert with defaults={"state": PROCESSING}.
GetOrCreateCreate(i) ==
    /\ pc[i] = "create"
    /\ IF UniqueViolation(rows)
       THEN /\ pc' = [pc EXCEPT ![i] = "integrity"]
            /\ effects' = [effects EXCEPT ![i] = @ \cup {"integrity_error"}]
            /\ UNCHANGED <<rows, next_id, comparison, created>>
       ELSE /\ rows' = rows \cup {NewRow(next_id, PROCESSING)}
            /\ next_id' = next_id + 1
            /\ comparison' = [comparison EXCEPT ![i] = <<NewRow(next_id, PROCESSING)>>]
            /\ created' = [created EXCEPT ![i] = TRUE]
            /\ pc' = [pc EXCEPT ![i] = "load"]
            /\ UNCHANGED effects
    /\ UNCHANGED nonTaskVars
    /\ UNCHANGED <<loaded, head_manifest, base_manifest, mask_blobs, comparison_blob,
                   exc, outcome, run>>

\* Mutant: the loser of the creation race goes on as if it had created the
\* row.
AfterIntegrityErrorAsCreator(i) ==
    /\ pc[i] = "integrity"
    /\ rows # {}
    /\ comparison' = [comparison EXCEPT ![i] = <<ExistingRow(rows)>>]
    /\ created' = [created EXCEPT ![i] = TRUE]
    /\ pc' = [pc EXCEPT ![i] = "load"]
    /\ UNCHANGED nonTaskVars
    /\ UNCHANGED <<loaded, rows, next_id, head_manifest, base_manifest, mask_blobs,
                   comparison_blob, exc, outcome, effects, run>>

\* After IntegrityError: the existing row is looked up (by get_or_create's
\* own retry, or by filter().first()).
AfterIntegrityError(i) ==
    /\ pc[i] = "integrity"
    /\ IF rows # {}
       THEN /\ comparison' = [comparison EXCEPT ![i] = <<ExistingRow(rows)>>]
            /\ created' = [created EXCEPT ![i] = FALSE]
            /\ pc' = [pc EXCEPT ![i] = "gate"]
            /\ UNCHANGED <<outcome, run>>
       ELSE /\ Return(i, "comparison_not_found")
            /\ UNCHANGED <<comparison, created>>
    /\ UNCHANGED nonTaskVars
    /\ UNCHANGED <<loaded, rows, next_id, head_manifest, base_manifest, mask_blobs,
                   comparison_blob, exc, effects>>

\* if not created: the conditional update PENDING/FAILED -> PROCESSING.
Gate(i) ==
    /\ pc[i] = "gate"
    /\ LET id == comparison[i][1].id IN
       IF Updated(rows, id) # 0
       THEN /\ rows' = ConditionalUpdate(rows, id)
            /\ comparison' = [comparison EXCEPT ![i][1].state = PROCESSING]
            /\ pc' = [pc EXCEPT ![i] = "load"]
            /\ UNCHANGED <<outcome, run>>
       ELSE /\ Return(i, "skipped")
            /\ UNCHANGED <<rows, comparison>>
    /\ UNCHANGED nonTaskVars
    /\ UNCHANGED <<loaded, next_id, head_manifest, base_manifest, mask_blobs,
                   comparison_blob, created, exc, effects>>

\* ------------------------------------------------------------ manifests

\* What loading the two manifests can come to: both parsed; a manifest key
\* missing from the metrics' extras; a JSONDecodeError, RequestError,
\* ValidationError or TypeError; any other exception.
LoadOutcomes == {"ok", "missing_key", "load_error", "other_error"}

\* The try body up to the classification of the names.
LoadManifests(i) ==
    /\ pc[i] = "load"
    /\ \E res \in LoadOutcomes :
          /\ loaded' = [loaded EXCEPT ![i] = res]
          /\ effects' = [effects EXCEPT ![i] =
                            IF res = "missing_key" THEN @ ELSE @ \cup {"load"}]
          /\ IF res = "missing_key" THEN Raise(i, "ValueError")
             ELSE IF res = "other_error" THEN Raise(i, "OtherError")
             ELSE IF res = "load_error"
             THEN /\ pc' = [pc EXCEPT ![i] = "load_failed"]
                  /\ UNCHANGED <<exc, outcome, run>>
             ELSE /\ pc' = [pc EXCEPT ![i] = "enter"]
                  /\ LET c == Classify(head_manifest, base_manifest) IN
                     run' = [run EXCEPT ![i] =
                               [EmptyRun EXCEPT
                                  !.image_results = c.image_results,
                                  !.unchanged_count = c.unchanged_count,
                                  !.error_count = c.error_count]]
                  /\ UNCHANGED <<exc, outcome>>
    /\ UNCHANGED nonTaskVars
    /\ UNCHANGED <<rows, next_id, head_manifest, base_manifest, mask_blobs,
                   comparison_blob, comparison, created>>

\* Mutant: the error code is not set.
MarkedFailedNoCode(obj) == [obj EXCEPT !.state = FAILED]

\* The in-memory record with state FAILED and error code INTERNAL_ERROR.
MarkedFailed(obj) ==
    [obj EXCEPT !.state = FAILED, !.error_code = INTERNAL_ERROR]

\* except (JSONDecodeError, RequestError, ValidationError, TypeError): save
\* FAILED and return; the save itself may raise.
SaveLoadFailed(i) ==
    /\ pc[i] = "load_failed"
    /\ comparison' = [comparison EXCEPT ![i][1] = MarkedFailed(@)]
    /\ \E saved \in SaveOutcomes(rows, comparison[i][1]) :
          IF saved
          THEN /\ rows' = SaveState(rows, MarkedFailed(comparison[i][1]))
               /\ Return(i, "load_failed")
               /\ UNCHANGED exc
          ELSE /\ Raise(i, "DatabaseError")
               /\ UNCHANGED rows
    /\ UNCHANGED nonTaskVars
    /\ UNCHANGED <<loaded, next_id, head_manifest, base_manifest, mask_blobs,
                   comparison_blob, created, effects>>

\* -------------------------------------------------------------- the batches

\* The run's position when batch b begins, or when the batches are over.
AtBatch(r, b) ==
    IF b > Len(Batches)
    THEN [r EXCEPT !.b = b, !.k = 0, !.diff_pairs = <<>>, !.batch_names = <<>>,
                   !.batch_hashes = <<>>, !.diff_results = <<>>]
    ELSE [r EXCEPT !.b = b, !.k = 1, !.diff_pairs = <<>>, !.batch_names = <<>>,
                   !.batch_hashes = <<>>, !.diff_results = <<>>]

PcAtBatch(b) == IF b > Len(Batches) THEN "finish" ELSE "fetch"

\* with OdiffServer() as server: the engine is spawned and must report ready.
EnterServer(i) ==
    /\ pc[i] = "enter"
    /\ effects' = [effects EXCEPT ![i] = @ \cup {"spawn"}]
    /\ \E ready \in BOOLEAN :
          IF ready
          THEN /\ run' = [run EXCEPT ![i] = [AtBatch(@, 1) EXCEPT !.server = "running"]]
               /\ pc' = [pc EXCEPT ![i] = PcAtBatch(1)]
               /\ UNCHANGED <<exc, outcome>>
          ELSE Raise(i, "RuntimeError")
    /\ UNCHANGED nonTaskVars
    /\ UNCHANGED <<loaded, rows, next_id, head_manifest, base_manifest, mask_blobs,
                   comparison_blob, comparison, created>>

\* The entry of an image whose bytes could not be fetched or compared.
Errored(head_hash, base_hash, reason) ==
    [status |-> "errored", head_hash |-> head_hash, base_hash |-> base_hash,
     reason |-> reason]

\* Mutant: a failed fetch ends the batch's fetch loop (break for continue).
FetchStepBreak(r, fetched) ==
    LET candidate == Batches[r.b][r.k]
        logged == [r EXCEPT !.seen = (candidate.name :>
                        (IF fetched THEN "fetched" ELSE "fetch_failed")) @@ @]
    IN  IF fetched
        THEN [logged EXCEPT
                !.k = @ + 1,
                !.diff_pairs = Append(@, <<candidate.base_hash, candidate.head_hash>>),
                !.batch_names = Append(@, candidate.name),
                !.batch_hashes = Append(@, <<candidate.head_hash, candidate.base_hash>>)]
        ELSE [logged EXCEPT
                !.k = Len(Batches[r.b]) + 1,
                !.error_count = @ + 1,
                !.image_results = (candidate.name :>
                    [status |-> "errored", head_hash |-> candidate.head_hash,
                     base_hash |-> candidate.base_hash,
                     reason |-> "image_fetch_failed"]) @@ @]

\* Mutant: the name of a candidate is kept for the zip also when its fetch
\* failed.
FetchStepNamesKept(r, fetched) ==
    LET candidate == Batches[r.b][r.k]
        logged == [r EXCEPT !.seen = (candidate.name :>
                        (IF fetched THEN "fetched" ELSE "fetch_failed")) @@ @,
                            !.k = @ + 1,
                            !.batch_names = Append(@, candidate.name)]
    IN  IF fetched
        THEN [logged EXCEPT
                !.diff_pairs = Append(@, <<candidate.base_hash, candidate.head_hash>>),
                !.batch_hashes = Append(@, <<candidate.head_hash, candidate.base_hash>>)]
        ELSE [logged EXCEPT
                !.error_count = @ + 1,
                !.image_results = (candidate.name :>
                    Errored(candidate.head_hash, candidate.base_hash,
                            "image_fetch_failed")) @@ @]

\* The run after candidate k of the batch was fetched (or not).
FetchStep(r, fetched) ==
    LET candidate == Batches[r.b][r.k]
        logged == [r EXCEPT !.seen = (candidate.name :>
                        (IF fetched THEN "fetched" ELSE "fetch_failed")) @@ @,
                            !.k = @ + 1]
    IN  IF fetched
        THEN [logged EXCEPT
                !.diff_pairs = Append(@, <<candidate.base_hash, candidate.head_hash>>),
                !.batch_names = Append(@, candidate.name),
                !.batch_hashes = Append(@, <<candidate.head_hash, candidate.base_hash>>)]
        ELSE [logged EXCEPT
                !.error_count = @ + 1,
                !.image_results = (candidate.name :>
                    Errored(candidate.head_hash, candidate.base_hash,
                            "image_fetch_failed")) @@ @]

\* Where the run stands after a fetch: more to fetch, the batch's compare, or
\* (compare_images_batch of no pairs returning []) the next batch.
AfterFetch(r) ==
    IF r.k <= Len(Batches[r.b]) THEN r
    ELSE IF r.diff_pairs = <<>> THEN AtBatch(r, r.b + 1)
    ELSE [r EXCEPT !.k = 1]

PcAfterFetch(r) ==
    IF r.k <= Len(Batches[r.b]) THEN "fetch"
    ELSE IF r.diff_pairs = <<>> THEN PcAtBatch(r.b + 1)
    ELSE "compare"

\* for candidate in batch: fetch the head and the base image.
FetchImages(i) ==
    /\ pc[i] = "fetch"
    /\ \E fetched \in BOOLEAN :
          LET r == FetchStep(run[i], fetched) IN
          /\ run' = [run EXCEPT ![i] = AfterFetch(r)]
          /\ pc' = [pc EXCEPT ![i] = PcAfterFetch(r)]
    /\ UNCHANGED nonTaskVars
    /\ UNCHANGED <<loaded, rows, next_id, head_manifest, base_manifest, mask_blobs,
                   comparison_blob, comparison, created, exc, outcome, effects>>

\* ----------------------------------------------------------- the comparator

\* An optional field of the engine's response is <<>> (None) or <<value>>;
\* `x or 0` is 0 for None and for 0.
OrZero(opt) == IF opt = <<>> THEN 0 ELSE opt[1]

\* What one pair's comparison can come to: an exception in decode, save or
\* server.compare (ok = FALSE), or the engine's response, with diffCount and
\* diffPercentage absent, zero or positive, and the output file written or
\* not.
EngineReplies ==
    { [ok |-> FALSE, diffCount |-> <<>>, diffPercentage |-> <<>>,
       output_exists |-> FALSE] }
    \cup
    { [ok |-> TRUE, diffCount |-> m[1], diffPercentage |-> m[2],
       output_exists |-> e] :
         m \in { << <<>>, <<>> >>, << <<0>>, <<0>> >>, << <<100>>, <<1>> >> },
         e \in BOOLEAN }

\* A pair that yielded None.
NullResult == [null |-> TRUE]

\* Mutant: the output file is required whatever the engine counted.
OutputRequiredAlways(changed_pixels) == TRUE

\* Mutant: the output file is never required.
OutputRequiredNever(changed_pixels) == FALSE

\* The output file is read, and must exist, unless changed_pixels == 0.
OutputRequired(changed_pixels) == changed_pixels # 0

\* The mask of a result: Image.new("L", (max_w, max_h), 0) when no pixel
\* changed, else the output file's alpha mask resized to (max_w, max_h).
DiffMask(max_w, max_h, changed_pixels) ==
    [width |-> max_w, height |-> max_h,
     pixels |-> IF changed_pixels = 0 THEN "zero" ELSE "output"]

\* _compare_single_pair: before and after are images with their sizes (in a
\* run the base and the head image, of the dimensions their manifests
\* state).  diff_score is the fraction diffPercentage / 100.  A missing
\* output file that is required raises, and every exception yields None.
CompareSinglePair(before, after, reply) ==
    IF ~reply.ok THEN NullResult
    ELSE LET max_w == Max(before.width, after.width)
             max_h == Max(before.height, after.height)
             changed_pixels == OrZero(reply.diffCount)
             diff_pct == OrZero(reply.diffPercentage)
         IN  IF OutputRequired(changed_pixels) /\ ~reply.output_exists
             THEN NullResult
             ELSE [null |-> FALSE,
                   diff_mask_png |-> DiffMask(max_w, max_h, changed_pixels),
                   diff_score |-> <<diff_pct, 100>>,
                   changed_pixels |-> changed_pixels,
                   total_pixels |-> max_w * max_h,
                   aligned_height |-> max_h,
                   width |-> max_w,
                   before_width |-> before.width,
                   before_height |-> before.height,
                   after_width |-> after.width,
                   after_height |-> after.height]

\* _compare_pairs: one result per pair, in the order of the pairs.
ComparePairs(pairs, reply_of) ==
    [idx \in 1..Len(pairs) |->
        CompareSinglePair(pairs[idx][1], pairs[idx][2], reply_of[pairs[idx]])]

\* What a call came to: the exception it raised, or the value it returned.
Raised(e) == [raised |-> e, value |-> <<>>]

Returned(value) == [raised |-> None, value |-> value]

\* compare_images_batch(pairs) with no server passed: an OdiffServer is
\* entered (its start may raise RuntimeError) and the pairs are compared.
CompareImagesBatchOwnServer(pairs, engine) ==
    IF engine.starts THEN Returned(ComparePairs(pairs, engine.reply))
    ELSE Raised("RuntimeError")

\* Mutant: the single form compares its pair and reports no score.
CompareImagesNoScore(before, after, engine) ==
    LET res == CompareSinglePair(before, after, engine.reply[<<before, after>>])
    IN  IF ~engine.starts THEN Raised("RuntimeError")
        ELSE IF res.null THEN Returned(res)
        ELSE Returned([res EXCEPT !.diff_score = <<0, 100>>])

\* compare_images(before, after): compare_images_batch([(before, after)])[0]
CompareImages(before, after, engine) ==
    LET batch == CompareImagesBatchOwnServer(<< <<before, after>> >>, engine)
    IN  IF batch.raised # None THEN batch ELSE Returned(batch.value[1])

\* The run after pair k of diff_pairs was compared.
CompareStep(r, reply) ==
    LET pair == r.diff_pairs[r.k]
        result == CompareSinglePair(MetaOf(base_manifest, pair[1]),
                                    MetaOf(head_manifest, pair[2]), reply)
    IN  [r EXCEPT !.diff_results = Append(@, result),
                  !.seen = (r.batch_names[r.k] :>
                              (IF ~reply.ok THEN "compare_failed"
                               ELSE IF OrZero(reply.diffCount) = 0 THEN "same"
                               ELSE IF reply.output_exists THEN "differs"
                               ELSE "no_output")) @@ @,
                  !.k = IF @ = Len(r.diff_pairs) THEN 1 ELSE @ + 1]

\* compare_images_batch(diff_pairs, server=server), one pair at a time.
CompareImagesBatch(i) ==
    /\ pc[i] = "compare"
    /\ \E reply \in EngineReplies :
          /\ run' = [run EXCEPT ![i] = CompareStep(@, reply)]
          /\ pc' = [pc EXCEPT ![i] =
                       IF run[i].k = Len(run[i].diff_pairs) THEN "results"
                       ELSE "compare"]
    /\ UNCHANGED nonTaskVars
    /\ UNCHANGED <<loaded, rows, next_id, head_manifest, base_manifest, mask_blobs,
                   comparison_blob, comparison, created, exc, outcome, effects>>

\* Mutant: a compared image is entered as changed whatever was counted.
ComparedAsChanged(name, head_hash, base_hash, diff_result) ==
    LET stem == ImageNameToPathStem(name) IN
    [status |-> IF diff_result.changed_pixels >= 0 THEN "changed" ELSE "unchanged",
     head_hash |-> head_hash,
     base_hash |-> base_hash,
     diff_score |-> diff_result.diff_score,
     changed_pixels |-> diff_result.changed_pixels,
     total_pixels |-> diff_result.total_pixels,
     diff_mask_key |-> stem,
     diff_mask_image_id |-> stem,
     before_width |-> diff_result.before_width,
     before_height |-> diff_result.before_height,
     after_width |-> diff_result.after_width,
     after_height |-> diff_result.after_height,
     aligned_height |-> diff_result.aligned_height,
     width |-> diff_result.width]

\* The entry of a compared image.
Compared(name, head_hash, base_hash, diff_result) ==
    LET stem == ImageNameToPathStem(name) IN
    [status |-> IF diff_result.changed_pixels > 0 THEN "changed" ELSE "unchanged",
     head_hash |-> head_hash,
     base_hash |-> base_hash,
     diff_score |-> diff_result.diff_score,
     changed_pixels |-> diff_result.changed_pixels,
     total_pixels |-> diff_result.total_pixels,
     diff_mask_key |-> stem,
     diff_mask_image_id |-> stem,
     before_width |-> diff_result.before_width,
     before_height |-> diff_result.before_height,
     after_width |-> diff_result.after_width,
     after_height |-> diff_result.after_height,
     aligned_height |-> diff_result.aligned_height,
     width |-> diff_result.width]

\* Mutant: a null result is entered as errored without being counted.
ResultStepUncounted(r) ==
    LET name == r.batch_names[r.k]
        head_hash == r.batch_hashes[r.k][1]
        base_hash == r.batch_hashes[r.k][2]
        diff_result == r.diff_results[r.k]
        stepped == [r EXCEPT !.k = @ + 1]
    IN  IF diff_result.null
        THEN [stepped EXCEPT
                !.image_results = (name :> Errored(head_hash, base_hash,
                                       "image_processing_failed")) @@ @]
        ELSE [stepped EXCEPT
                !.changed_count = IF diff_result.changed_pixels > 0 THEN @ + 1 ELSE @,
                !.unchanged_count = IF diff_result.changed_pixels > 0 THEN @ ELSE @ + 1,
                !.image_results = (name :> Compared(name, head_hash, base_hash,
                                                    diff_result)) @@ @]

\* The run after result k of the zip was recorded (its mask uploaded).
ResultStep(r) ==
    LET name == r.batch_names[r.k]
        head_hash == r.batch_hashes[r.k][1]
        base_hash == r.batch_hashes[r.k][2]
        diff_result == r.diff_results[r.k]
        stepped == [r EXCEPT !.k = @ + 1]
    IN  IF diff_result.null
        THEN [stepped EXCEPT
                !.error_count = @ + 1,
                !.image_results = (name :> Errored(head_hash, base_hash,
                                       "image_processing_failed")) @@ @]
        ELSE [stepped EXCEPT
                !.changed_count = IF diff_result.changed_pixels > 0 THEN @ + 1 ELSE @,
                !.unchanged_count = IF diff_result.changed_pixels > 0 THEN @ ELSE @ + 1,
                !.image_results = (name :> Compared(name, head_hash, base_hash,
                                                    diff_result)) @@ @]

\* for name, hashes, diff_result in zip(...): record the result; a non-null
\* result's mask is put to the object store first, and the put may raise.
RecordResult(i) ==
    /\ pc[i] = "results"
    /\ LET r == run[i]
           name == r.batch_names[r.k]
           diff_result == r.diff_results[r.k]
           last == r.k = Len(r.diff_results)
           after == IF last THEN AtBatch(ResultStep(r), r.b + 1) ELSE ResultStep(r)
           after_pc == IF last THEN PcAtBatch(r.b + 1) ELSE "results"
       IN  IF diff_result.null
           THEN /\ run' = [run EXCEPT ![i] = after]
                /\ pc' = [pc EXCEPT ![i] = after_pc]
                /\ UNCHANGED <<mask_blobs, exc, outcome, effects>>
           ELSE \E stored \in BOOLEAN :
                   IF stored
                   THEN /\ mask_blobs' =
                             (ImageNameToPathStem(name) :>
                                 [writer |-> i, name |-> name,
                                  changed_pixels |-> diff_result.changed_pixels])
                             @@ mask_blobs
                        /\ effects' = [effects EXCEPT ![i] = @ \cup {"put"}]
                        /\ run' = [run EXCEPT ![i] = after]
                        /\ pc' = [pc EXCEPT ![i] = after_pc]
                        /\ UNCHANGED <<exc, outcome>>
                   ELSE /\ Raise(i, "PutError")
                        /\ UNCHANGED <<mask_blobs, effects>>
    /\ UNCHANGED nonTaskVars
    /\ UNCHANGED <<loaded, rows, next_id, head_manifest, base_manifest,
                   comparison_blob, comparison, created>>

\* ------------------------------------------------------ the run's outcome

\* image_results once the added and the removed names are entered.
FinalImageResults(r) ==
    RemovedLoop(base_manifest, Sorted(Removed(head_manifest, base_manifest)),
        AddedLoop(head_manifest, Sorted(Added(head_manifest, base_manifest)),
                  r.image_results))

\* comparison_manifest["summary"]
Summary(r) ==
    [total |-> Cardinality(Matched(head_manifest, base_manifest))
                 + Cardinality(Added(head_manifest, base_manifest))
                 + Cardinality(Removed(head_manifest, base_manifest)),
     changed |-> r.changed_count,
     unchanged |-> r.unchanged_count,
     added |-> Cardinality(Added(head_manifest, base_manifest)),
     removed |-> Cardinality(Removed(head_manifest, base_manifest)),
     errored |-> r.error_count]

\* The with-block ends (the engine is closed), the added and removed names
\* are entered and comparison.json is put; the put may raise.
WriteManifest(i) ==
    /\ pc[i] = "finish"
    /\ \E stored \in BOOLEAN :
          IF stored
          THEN /\ comparison_blob' =
                    << [writer |-> i, summary |-> Summary(run[i]),
                        images |-> FinalImageResults(run[i])] >>
               /\ effects' = [effects EXCEPT ![i] = @ \cup {"put"}]
               /\ run' = [run EXCEPT ![i] =
                            [@ EXCEPT !.server = "closed",
                                      !.image_results = FinalImageResults(run[i])]]
               /\ pc' = [pc EXCEPT ![i] = "save_success"]
               /\ UNCHANGED <<exc, outcome>>
          ELSE /\ Raise(i, "PutError")
               /\ UNCHANGED <<comparison_blob, effects>>
    /\ UNCHANGED nonTaskVars
    /\ UNCHANGED <<loaded, rows, next_id, head_manifest, base_manifest, mask_blobs,
                   comparison, created>>

\* Mutant: the error code is left as it was read.
MarkedSuccessCodeKept(obj, r) ==
    [obj EXCEPT !.state = SUCCESS,
                !.images_changed = r.changed_count,
                !.images_unchanged = r.unchanged_count,
                !.images_added = Cardinality(Added(head_manifest, base_manifest)),
                !.images_removed = Cardinality(Removed(head_manifest, base_manifest)),
                !.comparison_key = ComparisonKey]

\* Mutant: the added and the removed counts are swapped.
MarkedSuccessSwapped(obj, r) ==
    [obj EXCEPT !.state = SUCCESS,
                !.error_code = None,
                !.images_changed = r.changed_count,
                !.images_unchanged = r.unchanged_count,
                !.images_added = Cardinality(Removed(head_manifest, base_manifest)),
                !.images_removed = Cardinality(Added(head_manifest, base_manifest)),
                !.comparison_key = ComparisonKey]

\* The in-memory record with state SUCCESS, the counts and the manifest key.
MarkedSuccess(obj, r) ==
    [obj EXCEPT !.state = SUCCESS,
                !.error_code = None,
                !.images_changed = r.changed_count,
                !.images_unchanged = r.unchanged_count,
                !.images_added = Cardinality(Added(head_manifest, base_manifest)),
                !.images_removed = Cardinality(Removed(head_manifest, base_manifest)),
                !.comparison_key = ComparisonKey]

\* comparison.state = SUCCESS ... comparison.save(...); the save may raise.
SaveSuccess(i) ==
    /\ pc[i] = "save_success"
    /\ comparison' = [comparison EXCEPT ![i][1] = MarkedSuccess(@, run[i])]
    /\ \E saved \in SaveOutcomes(rows, comparison[i][1]) :
          IF saved
          THEN /\ rows' = SaveAll(rows, MarkedSuccess(comparison[i][1], run[i]))
               /\ Return(i, "success")
               /\ UNCHANGED exc
          ELSE /\ Raise(i, "DatabaseError")
               /\ UNCHANGED rows
    /\ UNCHANGED nonTaskVars
    /\ UNCHANGED <<loaded, next_id, head_manifest, base_manifest, mask_blobs,
                   comparison_blob, created, effects>>

\* Mutant: a failing save's exception replaces the one caught.
ReraisedSecondary(caught, secondary) ==
    IF secondary # None THEN secondary ELSE caught

\* What the handler re-raises: the exception it caught.
Reraised(caught, secondary) == caught

\* except BaseException: save FAILED (a failing save is logged and swallowed)
\* and re-raise.
ExceptHandler(i) ==
    /\ pc[i] = "except"
    /\ comparison' = [comparison EXCEPT ![i][1] = MarkedFailed(@)]
    /\ \E saved \in SaveOutcomes(rows, comparison[i][1]) :
          /\ rows' = IF saved THEN SaveState(rows, MarkedFailed(comparison[i][1]))
                     ELSE rows
          /\ exc' = [exc EXCEPT ![i] =
                        Reraised(@, IF saved THEN None ELSE "SecondarySaveError")]
          /\ effects' = [effects EXCEPT ![i] =
                            IF saved THEN @ ELSE @ \cup {"save_failed"}]
    /\ Return(i, "raised")
    /\ UNCHANGED nonTaskVars
    /\ UNCHANGED <<loaded, next_id, head_manifest, base_manifest, mask_blobs,
                   comparison_blob, created>>

\* ------------------------------------------------------------ specification

\* A step of invocation i.
Step(i) ==
    \/ LookupArtifacts(i)
    \/ GetOrCreateGet(i)
    \/ GetOrCreateCreate(i)
    \/ AfterIntegrityError(i)
    \/ Gate(i)
    \/ LoadManifests(i)
    \/ SaveLoadFailed(i)
    \/ EnterServer(i)
    \/ FetchImages(i)
    \/ CompareImagesBatch(i)
    \/ RecordResult(i)
    \/ WriteManifest(i)
    \/ SaveSuccess(i)
    \/ ExceptHandler(i)

Next == \E i \in Invs : Step(i)

Spec == Init /\ [][Next]_vars

\* The worker of an invocation is not killed and every call it makes returns
\* or raises: an invocation that can take a step takes one.
SpecLive == Spec /\ \A i \in Invs : WF_vars(Step(i))

\* ------------------------------------------------------ a worker that dies

\* The worker process ends while the invocation is between the gate and the
\* end of its handler: nothing more is written, and the handler does not run.
WorkerDies(i) ==
    /\ pc[i] \in {"load", "load_failed", "enter", "fetch", "compare", "results",
                  "finish", "save_success", "except"}
    /\ Return(i, "died")
    /\ UNCHANGED nonTaskVars
    /\ UNCHANGED <<loaded, rows, next_id, head_manifest, base_manifest, mask_blobs,
                   comparison_blob, comparison, created, exc, effects>>

NextCrash == Next \/ \E i \in Invs : WorkerDies(i)

\* The invocations of a pair, any of which may lose its worker.
SpecCrash == Init /\ [][NextCrash]_vars

\* ------------------------------------------------ the recompare endpoint

\* The invocations of a pair of which the first is dispatched; the others are
\* dispatched by recompare requests.
InitRecompare ==
    /\ BatchIdle
    /\ OdiffInit
    /\ FilesIdle
    /\ CompareIdle
    /\ CategorizeIdle
    /\ \E s \in Scenarios : head_manifest = s[1] /\ base_manifest = s[2]
    /\ \E seeded \in BOOLEAN :
          /\ rows = IF seeded THEN {NewRow(1, PENDING)} ELSE {}
          /\ next_id = IF seeded THEN 2 ELSE 1
    /\ mask_blobs = <<>>
    /\ comparison_blob = <<>>
    /\ pc = [i \in Invs |-> IF i = 1 THEN "start" ELSE "undispatched"]
    /\ comparison = [i \in Invs |-> <<>>]
    /\ created = [i \in Invs |-> FALSE]
    /\ exc = [i \in Invs |-> None]
    /\ outcome = [i \in Invs |-> None]
    /\ effects = [i \in Invs |-> {}]
    /\ loaded = [i \in Invs |-> None]
    /\ run = [i \in Invs |-> EmptyRun]

\* filter(head_snapshot_metrics=...).order_by("-id").first()
LatestRow(table) == CHOOSE r \in table : \A q \in table : q.id <= r.id

\* PreprodSnapshotRecompareEndpoint.post, when it answers "queued": the
\* latest comparison of the head, if there is one, is deleted whatever its
\* state, and compare_snapshots is dispatched as invocation j.  (A request
\* answered 400 or 404 changes nothing.)
Recompare(j) ==
    /\ pc[j] = "undispatched"
    /\ rows' = IF rows = {} THEN rows ELSE rows \ {LatestRow(rows)}
    /\ pc' = [pc EXCEPT ![j] = "start"]
    /\ UNCHANGED nonTaskVars
    /\ UNCHANGED <<loaded, next_id, head_manifest, base_manifest, mask_blobs,
                   comparison_blob, comparison, created, exc, outcome, effects,
                   run>>

NextRecompare == Next \/ \E j \in Invs : Recompare(j)

SpecRecompare == InitRecompare /\ [][NextRecompare]_vars

\* ------------------------------------------------------------- a single run

\* Invocation 1 has just created the pair's record in PROCESSING; the other
\* invocations are not dispatched.
InitRun ==
    /\ BatchIdle
    /\ OdiffInit
    /\ FilesIdle
    /\ CompareIdle
    /\ CategorizeIdle
    /\ \E s \in RunScenarios : head_manifest = s[1] /\ base_manifest = s[2]
    /\ rows = {NewRow(1, PROCESSING)}
    /\ next_id = 2
    /\ mask_blobs = <<>>
    /\ comparison_blob = <<>>
    /\ pc = [i \in Invs |-> IF i = 1 THEN "load" ELSE "start"]
    /\ comparison = [i \in Invs |-> IF i = 1 THEN <<NewRow(1, PROCESSING)>> ELSE <<>>]
    /\ created = [i \in Invs |-> i = 1]
    /\ exc = [i \in Invs |-> None]
    /\ outcome = [i \in Invs |-> None]
    /\ effects = [i \in Invs |-> {}]
    /\ loaded = [i \in Invs |-> None]
    /\ run = [i \in Invs |-> EmptyRun]

NextRun ==
    \E i \in Invs :
        \/ LoadManifests(i)
        \/ SaveLoadFailed(i)
        \/ EnterServer(i)
        \/ FetchImages(i)
        \/ CompareImagesBatch(i)
        \/ RecordResult(i)
        \/ WriteManifest(i)
        \/ SaveSuccess(i)
        \/ ExceptHandler(i)

SpecRun == InitRun /\ [][NextRun]_vars

\* ------------------------------------------- _create_pixel_batches on its own

\* Pixel counts and budgets range over 0..MaxPixels.
MaxPixels == 3

\* Candidate k of a list is named by its position ("a", "b", ...).
BatchInputs ==
    UNION { { [k \in 1..n |-> DiffCandidate(<<96 + k>>, "h", "g", f[k])] :
                f \in [1..n -> 0..MaxPixels] } : n \in 0..MaxItems }

\* No invocation is dispatched.
TaskIdle ==
    /\ head_manifest = PlainHead
    /\ base_manifest = PlainBase
    /\ rows = {}
    /\ next_id = 1
    /\ mask_blobs = <<>>
    /\ comparison_blob = <<>>
    /\ pc = [i \in Invs |-> "start"]
    /\ comparison = [i \in Invs |-> <<>>]
    /\ created = [i \in Invs |-> FALSE]
    /\ exc = [i \in Invs |-> None]
    /\ outcome = [i \in Invs |-> None]
    /\ effects = [i \in Invs |-> {}]
    /\ loaded = [i \in Invs |-> None]
    /\ run = [i \in Invs |-> EmptyRun]

InitBatch ==
    /\ TaskIdle
    /\ OdiffInit
    /\ FilesIdle
    /\ CompareIdle
    /\ CategorizeIdle
    /\ batch_input \in BatchInputs
    /\ batch_budget \in 0..MaxPixels
    /\ batch_output = <<>>
    /\ batch_pc = "call"

\* batches = _create_pixel_batches(items, max_pixels_per_batch)
CallCreatePixelBatches ==
    /\ batch_pc = "call"
    /\ batch_output' = CreatePixelBatches(batch_input, batch_budget)
    /\ batch_pc' = "returned"
    /\ UNCHANGED <<batch_input, batch_budget>>
    /\ UNCHANGED nonBatchVars

NextBatch == CallCreatePixelBatches

SpecBatch == InitBatch /\ [][NextBatch]_vars

\* ------------------------------------------------ the comparator on its own

\* The images passed: 30 x 30 and 50 x 50, and two of which neither covers
\* the other.
SmallImage == [width |-> 30, height |-> 30]

LargeImage == [width |-> 50, height |-> 50]

WideImage == [width |-> 50, height |-> 20]

TallImage == [width |-> 30, height |-> 40]

PairInputs == { <<SmallImage, LargeImage>>, <<WideImage, TallImage>> }

\* Lists of at most MaxItems pairs.
PairLists == UNION { [1..n -> PairInputs] : n \in 0..MaxItems }

\* A deterministic engine: it starts or it does not, and its reply to a pair
\* depends on the pair alone.
Engines == [starts : BOOLEAN, reply : [PairInputs -> EngineReplies]]

InitCompare ==
    /\ TaskIdle
    /\ BatchIdle
    /\ OdiffInit
    /\ FilesIdle
    /\ CategorizeIdle
    /\ cmp_pairs \in PairLists
    /\ cmp_engine \in Engines
    /\ cmp_batch = <<>>
    /\ cmp_single = <<>>
    /\ cmp_pc = "call"

\* results = compare_images_batch(pairs)
CallCompareImagesBatch ==
    /\ cmp_pc = "call"
    /\ cmp_batch = <<>>
    /\ cmp_batch' = << CompareImagesBatchOwnServer(cmp_pairs, cmp_engine) >>
    /\ UNCHANGED <<cmp_pairs, cmp_engine, cmp_single, cmp_pc>>
    /\ UNCHANGED nonCompareVars

\* result = compare_images(before, after)
CallCompareImages ==
    /\ cmp_pc = "call"
    /\ cmp_single = <<>>
    /\ \E pair \in PairInputs :
          cmp_single' = << [before |-> pair[1], after |-> pair[2],
                            result |-> CompareImages(pair[1], pair[2],
                                                     cmp_engine)] >>
    /\ UNCHANGED <<cmp_pairs, cmp_engine, cmp_batch, cmp_pc>>
    /\ UNCHANGED nonCompareVars

NextCompare ==
    \/ CallCompareImagesBatch
    \/ CallCompareImages

SpecCompare == InitCompare /\ [][NextCompare]_vars

\* A single run, or calls of the comparator on its own.
InitRunOrCompare == InitRun \/ InitCompare

NextRunOrCompare == NextRun \/ NextCompare

SpecRunOrCompare == InitRunOrCompare /\ [][NextRunOrCompare]_vars

\* ------------------------------------------- categorize_comparison_images

\* A ComparisonImageResult as far as the categorizer reads it; changed_pixels
\* and total_pixels are <<>> (None) or <<value>>.
ComparisonImageResult(status, changed_pixels, total_pixels) ==
    [status |-> status, changed_pixels |-> changed_pixels,
     total_pixels |-> total_pixels]

\* diff of a changed pair: changed_pixels / total_pixels as a fraction, or
\* <<>> (None) when changed_pixels is None or total_pixels is None or 0.
DiffOf(img) ==
    IF img.changed_pixels # <<>> /\ OrZero(img.total_pixels) # 0
    THEN <<img.changed_pixels[1], img.total_pixels[1]>>
    ELSE <<>>

\* key=lambda p: p.diff or 0
SortKey(p) == IF p.diff = <<>> THEN <<0, 1>> ELSE p.diff

\* The order of two keys, which are fractions of positive denominator.
KeyLess(a, b) == a[1] * b[2] < b[1] * a[2]

\* Mutant: a pair is placed before the pairs of equal key.
InsertBeforeTies(sorted, p) ==
    LET ahead == {k \in 1..Len(sorted) : KeyLess(SortKey(p), SortKey(sorted[k]))}
        n == Cardinality(ahead)
    IN  SubSeq(sorted, 1, n) \o <<p>> \o SubSeq(sorted, n + 1, Len(sorted))

\* Where a stable descending sort places p among the pairs before it: after
\* every pair whose key is not smaller.  `sorted` is in descending key order.
InsertStable(sorted, p) ==
    LET ahead == {k \in 1..Len(sorted) : ~KeyLess(SortKey(sorted[k]), SortKey(p))}
        n == Cardinality(ahead)
    IN  SubSeq(sorted, 1, n) \o <<p>> \o SubSeq(sorted, n + 1, Len(sorted))

\* list.sort(key=..., reverse=True): descending keys, pairs of equal key in
\* the order they had.
RECURSIVE SortByDiff(_, _)
SortByDiff(pairs, sorted) ==
    IF pairs = <<>> THEN sorted
    ELSE SortByDiff(Tail(pairs), InsertStable(sorted, Head(pairs)))

\* An empty CategorizedComparison.
CategorizedComparison ==
    [changed |-> <<>>, added |-> <<>>, removed |-> <<>>, unchanged |-> <<>>,
     errored |-> <<>>]

\* for name, img in sorted(comparison_data.images.items()): the name goes to
\* the list of its status; changed, added and unchanged need a head image.
RECURSIVE CategorizeLoop(_, _, _, _)
CategorizeLoop(images, heads, names, result) ==
    IF names = <<>> THEN result
    ELSE LET name == Head(names)
             img == images[name]
             next ==
                IF img.status = "changed"
                THEN IF name \in heads
                     THEN [result EXCEPT !.changed =
                              Append(@, [name |-> name, diff |-> DiffOf(img)])]
                     ELSE result
                ELSE IF img.status = "added"
                THEN IF name \in heads
                     THEN [result EXCEPT !.added = Append(@, name)]
                     ELSE result
                ELSE IF img.status = "removed"
                THEN [result EXCEPT !.removed = Append(@, name)]
                ELSE IF img.status = "unchanged"
                THEN IF name \in heads
                     THEN [result EXCEPT !.unchanged = Append(@, name)]
                     ELSE result
                ELSE [result EXCEPT !.errored = Append(@, name)]
         IN  CategorizeLoop(images, heads, Tail(names), next)

\* categorize_comparison_images(comparison_data, head_images_by_file_name, ...)
CategorizeComparisonImages(images, heads) ==
    LET result == CategorizeLoop(images, heads, Sorted(DOMAIN images),
                                 CategorizedComparison)
    IN  [result EXCEPT !.changed = SortByDiff(@, <<>>)]

\* Image names: "b", "ab", "a", "B", "a.".
NamePool == << <<98>>, <<97, 98>>, <<97>>, <<66>>, <<97, 46>> >>

CategorizeNames == { NamePool[k] : k \in 1..MaxItems }

\* The entries an image can have: changed with no counts, with no changed
\* pixel, with a ratio of one half written as 1/2 and as 2/4, or with a total
\* of 0; and one entry of each other status.
CategorizeEntries ==
    { ComparisonImageResult("changed", m[1], m[2]) :
        m \in { << <<>>, <<>> >>, << <<0>>, <<4>> >>, << <<1>>, <<2>> >>,
                << <<2>>, <<4>> >>, << <<1>>, <<0>> >> } }
    \cup
    { ComparisonImageResult(st, <<>>, <<>>) :
        st \in {"unchanged", "added", "removed", "errored"} }

CategorizeInputs ==
    UNION { [D -> CategorizeEntries] : D \in SUBSET CategorizeNames }

InitCategorize ==
    /\ TaskIdle
    /\ BatchIdle
    /\ OdiffInit
    /\ FilesIdle
    /\ CompareIdle
    /\ cat_images \in CategorizeInputs
    /\ cat_heads \in SUBSET CategorizeNames
    /\ cat_result = <<>>
    /\ cat_pc = "call"

\* categorized = categorize_comparison_images(...)
CallCategorize ==
    /\ cat_pc = "call"
    /\ cat_result' = << CategorizeComparisonImages(cat_images, cat_heads) >>
    /\ cat_pc' = "returned"
    /\ UNCHANGED <<cat_images, cat_heads>>
    /\ UNCHANGED nonCategorizeVars

NextCategorize == CallCategorize

SpecCategorize == InitCategorize /\ [][NextCategorize]_vars

\* ------------------------------- compare_images_batch and its directory

\* Mutant: every pair's files are named after idx 0.
TmpFileShared(kind, idx) == <<kind, 0>>

\* tmpdir_path / f"{kind}_{idx}.png"
TmpFile(kind, idx) == <<kind, idx>>

InitFiles ==
    /\ TaskIdle
    /\ BatchIdle
    /\ OdiffInit
    /\ CompareIdle
    /\ CategorizeIdle
    /\ tmp_pc = "call"
    /\ tmp_n \in 0..MaxItems
    /\ tmp_own \in BOOLEAN
    /\ tmp_idx = 0
    /\ tmpdir = "none"
    /\ tmp_files = <<>>
    /\ tmp_requests = <<>>
    /\ tmp_reads = {}
    /\ tmp_results = <<>>

\* The comprehension of _compare_pairs moves on to pair idx, or is over.
PcAtPair(idx) == IF idx < tmp_n THEN "save_before" ELSE "exit"

\* _compare_single_pair returned: its result joins the list.
PairDone(result) ==
    /\ tmp_results' = Append(tmp_results, result)
    /\ tmp_idx' = tmp_idx + 1
    /\ tmp_pc' = PcAtPair(tmp_idx + 1)

\* with tempfile.TemporaryDirectory() as tmpdir, and with no server passed
\* `with OdiffServer() as new_server`, whose start may raise: the directory
\* is removed as the exception leaves the with block.
EnterTmpdir ==
    /\ tmp_pc = "call"
    /\ \E started \in BOOLEAN :
          IF tmp_own /\ ~started
          THEN /\ tmpdir' = "removed"
               /\ tmp_pc' = "raised"
          ELSE /\ tmpdir' = "exists"
               /\ tmp_pc' = PcAtPair(0)
    /\ UNCHANGED <<tmp_n, tmp_own, tmp_idx, tmp_files, tmp_requests, tmp_reads,
                   tmp_results>>
    /\ UNCHANGED nonFilesVars

\* before_img.save(before_path, "PNG"), then after_img.save(after_path,
\* "PNG"): decoding the pair or a save may raise, which yields None.
SaveInput ==
    /\ tmp_pc \in {"save_before", "save_after"}
    /\ \E saved \in BOOLEAN :
          IF saved
          THEN LET kind == IF tmp_pc = "save_before" THEN "before" ELSE "after"
               IN  /\ tmp_files' = (TmpFile(kind, tmp_idx) :> tmp_idx) @@ tmp_files
                   /\ tmp_pc' = IF tmp_pc = "save_before" THEN "save_after"
                                ELSE "request"
                   /\ UNCHANGED <<tmp_idx, tmp_results>>
          ELSE /\ PairDone("none")
               /\ UNCHANGED tmp_files
    /\ UNCHANGED <<tmp_n, tmp_own, tmpdir, tmp_requests, tmp_reads>>
    /\ UNCHANGED nonFilesVars

\* server.compare(before_path, after_path, output_path, ...) up to the write
\* of the request; it may raise before (the engine does not start).
SendRequest ==
    /\ tmp_pc = "request"
    /\ \E written \in BOOLEAN :
          IF written
          THEN /\ tmp_requests' = Append(tmp_requests,
                      [idx |-> tmp_idx,
                       before |-> TmpFile("before", tmp_idx),
                       after |-> TmpFile("after", tmp_idx),
                       output |-> TmpFile("diff", tmp_idx),
                       answered |-> FALSE])
               /\ tmp_pc' = "await"
               /\ UNCHANGED <<tmp_idx, tmp_results>>
          ELSE /\ PairDone("none")
               /\ UNCHANGED tmp_requests
    /\ UNCHANGED <<tmp_n, tmp_own, tmpdir, tmp_files, tmp_reads>>
    /\ UNCHANGED nonFilesVars

\* The engine answers (or server.compare raises): it may have written the
\* output file.  changed_pixels == 0 needs no file; else output_path.exists()
\* decides between a read and RuntimeError, which yields None.
ReceiveResponse ==
    /\ tmp_pc = "await"
    /\ \E reply \in EngineReplies :
          LET output == TmpFile("diff", tmp_idx)
              files == IF reply.output_exists
                       THEN (output :> tmp_idx) @@ tmp_files ELSE tmp_files
          IN  /\ tmp_files' = files
              /\ tmp_requests' = [tmp_requests EXCEPT
                                     ![Len(tmp_requests)].answered = reply.ok]
              /\ IF ~reply.ok THEN PairDone("none")
                 ELSE IF ~OutputRequired(OrZero(reply.diffCount))
                      THEN PairDone("result")
                 ELSE IF output \notin DOMAIN files THEN PairDone("none")
                 ELSE /\ tmp_pc' = "read"
                      /\ UNCHANGED <<tmp_idx, tmp_results>>
    /\ UNCHANGED <<tmp_n, tmp_own, tmpdir, tmp_reads>>
    /\ UNCHANGED nonFilesVars

\* diff_mask = _mask_from_diff_output(output_path)
ReadOutput ==
    /\ tmp_pc = "read"
    /\ tmp_reads' = tmp_reads \cup { <<tmp_idx, TmpFile("diff", tmp_idx)>> }
    /\ PairDone("result")
    /\ UNCHANGED <<tmp_n, tmp_own, tmpdir, tmp_files, tmp_requests>>
    /\ UNCHANGED nonFilesVars

\* The with block is left by the return: the directory and what it holds
\* are removed.
ExitTmpdir ==
    /\ tmp_pc = "exit"
    /\ tmpdir' = "removed"
    /\ tmp_files' = <<>>
    /\ tmp_pc' = "returned"
    /\ UNCHANGED <<tmp_n, tmp_own, tmp_idx, tmp_requests, tmp_reads, tmp_results>>
    /\ UNCHANGED nonFilesVars

NextFiles ==
    \/ EnterTmpdir
    \/ SaveInput
    \/ SendRequest
    \/ ReceiveResponse
    \/ ReadOutput
    \/ ExitTmpdir

SpecFiles == InitFiles /\ [][NextFiles]_vars

\* ------------------------------------------------------------- OdiffServer

Threads == 1..NumThreads

\* Mutant: the lock is never waited for.
LockIgnored(t) == TRUE

\* with self._lock: the lock can be taken.
LockFree(t) == lock = 0

\* The child subprocess.Popen returns.  `ready`: its ready line was read;
\* `inflight`: the thread whose request it has not answered yet; `failed`: a
\* write to it or a read from it failed; `erred`: it answered a request with
\* an error; `signals`: what was done to end it; `exited`: a wait of close
\* saw it exit; `lines`: the requestIds of the response lines not read from
\* its stdout, the engine emitting one line for each request it is written.
NewChild ==
    [ready |-> FALSE, inflight |-> 0, failed |-> FALSE, erred |-> FALSE,
     signals |-> <<>>, exited |-> FALSE, lines |-> <<>>]

\* proc.kill(); proc.wait(timeout=5), a timeout of the wait ignored.
Killed(child) == [child EXCEPT !.signals = Append(@, "KILL")]

\* Mutant: _kill_process leaves the handle as it is.
HandleKept(handle) == handle

\* _kill_process: self._process = None
HandleAfterKill(handle) == 0

\* Mutant: _kill_process starts the request ids anew.
RequestIdReset(id) == 0

\* _kill_process leaves self._request_id as it is.
RequestIdAfterKill(id) == id

\* _kill_process: the child held, if any, is killed.
KillProcess(chs, handle) ==
    IF handle = 0 THEN chs ELSE [chs EXCEPT ![handle] = Killed(@)]

\* How _start can come out: no binary found (nothing is spawned); no line
\* within 30 s; a line that does not say ready; a line that is not JSON, as
\* the empty line of a child that exited; the ready line.
StartOutcomes == {"no_binary", "timeout", "not_ready", "bad_line", "ready"}

\* What _start raises.
StartRaises(started) ==
    IF started = "no_binary" THEN "FileNotFoundError"
    ELSE IF started = "timeout" THEN "RuntimeError: timed out waiting for ready"
    ELSE IF started = "not_ready" THEN "RuntimeError: failed to start"
    ELSE IF started = "bad_line" THEN "JSONDecodeError"
    ELSE None

\* Mutant: the handle is set as soon as the child is spawned.
HandleSetAtSpawn(started, c) == IF started = "no_binary" THEN 0 ELSE c

\* self._process after _start was called with no child held.
HandleAfterStart(started, c) == IF started = "ready" THEN c ELSE 0

\* _start, called with the lock held and no child held: the children, the
\* handle, the exception and the child spawned after it.
Start(started) ==
    LET c == Len(children) + 1 IN
    IF started = "no_binary"
    THEN [children |-> children, process |-> process,
          raised |-> StartRaises(started), child |-> 0]
    ELSE IF started = "ready"
    THEN [children |-> Append(children, [NewChild EXCEPT !.ready = TRUE]),
          process |-> HandleAfterStart(started, c),
          raised |-> None, child |-> c]
    ELSE [children |-> Append(children, Killed(NewChild)),
          process |-> HandleAfterStart(started, c),
          raised |-> StartRaises(started), child |-> c]

\* __enter__: with the lock held, start a child if none is held.
Enter(t) ==
    /\ threads[t].pc = "idle"
    /\ LockFree(t)
    /\ IF process # 0
       THEN /\ last_call' = Call(t, "enter", "entered", process)
            /\ UNCHANGED <<process, children>>
       ELSE /\ Len(children) < MaxChildren
            /\ \E started \in StartOutcomes :
                  LET s == Start(started) IN
                  /\ children' = s.children
                  /\ process' = s.process
                  /\ last_call' = Call(t, "enter",
                                       IF s.raised = None THEN "entered" ELSE s.raised,
                                       s.child)
    /\ UNCHANGED <<request_id, written_ids, lock, threads>>
    /\ UNCHANGED nonOdiffVars

\* compare, up to `process = self._process`: take the lock and start a child
\* if none is held; a failing _start leaves the with-block raising.
CompareAcquire(t) ==
    /\ threads[t].pc = "idle"
    /\ LockFree(t)
    /\ request_id < MaxRequests
    /\ IF process # 0
       THEN /\ lock' = t
            /\ threads' = [threads EXCEPT ![t] = [pc |-> "cmp_write", proc |-> process, sent |-> 0]]
            /\ UNCHANGED <<process, children, last_call>>
       ELSE /\ Len(children) < MaxChildren
            /\ \E started \in StartOutcomes :
                  LET s == Start(started) IN
                  /\ children' = s.children
                  /\ process' = s.process
                  /\ IF s.raised = None
                     THEN /\ lock' = t
                          /\ threads' = [threads EXCEPT ![t] =
                                [pc |-> "cmp_write", proc |-> s.process,
                                 sent |-> 0]]
                          /\ UNCHANGED last_call
                     ELSE /\ lock' = 0
                          /\ last_call' = Call(t, "compare", s.raised, s.child)
                          /\ UNCHANGED threads
    /\ UNCHANGED <<request_id, written_ids>>
    /\ UNCHANGED nonOdiffVars

\* compare: self._request_id += 1, then the request is written and flushed;
\* BrokenPipeError or OSError kills the child and raises.
CompareWrite(t) ==
    /\ threads[t].pc = "cmp_write"
    /\ written_ids' = Append(written_ids, request_id + 1)
    /\ LET c == threads[t].proc IN
       \E written \in BOOLEAN :
          IF written
          THEN /\ request_id' = request_id + 1
               /\ children' = [children EXCEPT ![c].inflight = t,
                                               ![c].lines = Append(@, request_id + 1)]
               /\ threads' = [threads EXCEPT ![t].pc = "cmp_read",
                                             ![t].sent = request_id + 1]
               /\ UNCHANGED <<process, lock, last_call>>
          ELSE /\ request_id' = RequestIdAfterKill(request_id + 1)
               /\ children' = KillProcess([children EXCEPT ![c].failed = TRUE],
                                          process)
               /\ process' = HandleAfterKill(process)
               /\ lock' = 0
               /\ threads' = [threads EXCEPT ![t] = IdleThread]
               /\ last_call' = Call(t, "compare", "RuntimeError: died unexpectedly", c)
    /\ UNCHANGED nonOdiffVars

\* How the read of a response can come out: no line within 30 s; the empty
\* line of a closed stdout; a line that is not a response; a response with
\* an error; a response without.
ReadOutcomes == {"timeout", "eof", "garbage", "error", "ok"}

\* Mutant: a timeout of the read leaves the child alive and held.
KillsOnEof(reply) == reply = "eof"

\* The reads that take a line from the child's stdout: every one but the
\* timeout (no line yet) and the empty read of a closed stdout.
ConsumesLine(reply) == reply \in {"garbage", "error", "ok"}

\* Mutant: a response with an error kills the child as well.
KillsOnReadOrError(reply) == reply \in {"timeout", "eof", "error"}

\* The reads after which compare calls _kill_process.
KillsOnRead(reply) == reply \in {"timeout", "eof"}

\* What compare raises after the read, or that it returns the response.
ReadResult(reply) ==
    IF reply = "timeout" THEN "RuntimeError: timed out after 30s"
    ELSE IF reply = "eof" THEN "RuntimeError: exited unexpectedly"
    ELSE IF reply = "garbage" THEN "ValueError"
    ELSE IF reply = "error" THEN "RuntimeError: odiff error"
    ELSE "response"

\* compare, from select to the end: read the response line, kill the child
\* on a timeout or an empty line, leave the lock, raise on a response with
\* an error.
CompareRead(t) ==
    /\ threads[t].pc = "cmp_read"
    /\ LET c == threads[t].proc IN
       \E reply \in ReadOutcomes :
          LET read == [children EXCEPT ![c].inflight = 0,
                                       ![c].lines = IF ConsumesLine(reply)
                                                    THEN Tail(@) ELSE @,
                                       ![c].erred = @ \/ reply = "error",
                                       ![c].failed = @ \/ reply \in {"timeout", "eof"}]
          IN  /\ IF KillsOnRead(reply)
                 THEN /\ children' = KillProcess(read, process)
                      /\ process' = HandleAfterKill(process)
                      /\ request_id' = RequestIdAfterKill(request_id)
                 ELSE /\ children' = read
                      /\ UNCHANGED <<process, request_id>>
              /\ last_call' = Call(t, "compare", ReadResult(reply), c)
    /\ threads' = [threads EXCEPT ![t] = IdleThread]
    /\ lock' = 0
    /\ UNCHANGED written_ids
    /\ UNCHANGED nonOdiffVars

\* Mutant: close leaves the handle on the child it took.
HandleLeftAtClose(handle) == handle

\* close: proc = self._process; self._process = None
HandleAfterClose(handle) == 0

\* close, under the lock: return if no child is held, else take it and set
\* the handle to None.
CloseTake(t) ==
    /\ threads[t].pc = "idle"
    /\ LockFree(t)
    /\ IF process = 0
       THEN /\ last_call' = Call(t, "close", "closed", 0)
            /\ UNCHANGED threads
       ELSE /\ threads' = [threads EXCEPT ![t] =
                              [pc |-> "close_streams", proc |-> process,
                               sent |-> 0]]
            /\ UNCHANGED last_call
    /\ process' = IF process = 0 THEN 0 ELSE HandleAfterClose(process)
    /\ UNCHANGED <<request_id, written_ids, lock, children>>
    /\ UNCHANGED nonOdiffVars

\* Mutant: the next step of close is taken whatever the wait saw.
EscalatesAlways(exited) == TRUE

\* except subprocess.TimeoutExpired: pass -- close goes on to its next step
\* only when the wait timed out.
Escalates(exited) == ~exited

\* A step of close on the child taken: what is done to the child, the wait
\* after it, and where close stands then.
CloseStep(t, sig, exited, next_pc) ==
    LET c == threads[t].proc IN
    /\ children' = [children EXCEPT ![c].signals = Append(@, sig),
                                    ![c].exited = exited]
    /\ IF Escalates(exited) /\ next_pc # "idle"
       THEN /\ threads' = [threads EXCEPT ![t].pc = next_pc]
            /\ UNCHANGED last_call
       ELSE /\ threads' = [threads EXCEPT ![t] = IdleThread]
            /\ last_call' = Call(t, "close", "closed", c)
    /\ UNCHANGED <<process, request_id, written_ids, lock>>
    /\ UNCHANGED nonOdiffVars

\* close: stdin and stdout are closed, then proc.wait(timeout=3).
CloseStreams(t) ==
    /\ threads[t].pc = "close_streams"
    /\ \E exited \in BOOLEAN : CloseStep(t, "close", exited, "close_term")

\* close: proc.terminate(), then proc.wait(timeout=5).
CloseTerminate(t) ==
    /\ threads[t].pc = "close_term"
    /\ \E exited \in BOOLEAN : CloseStep(t, "TERM", exited, "close_kill")

\* close: proc.kill(), then proc.wait(timeout=5), a timeout ignored.
CloseKill(t) ==
    /\ threads[t].pc = "close_kill"
    /\ \E exited \in BOOLEAN : CloseStep(t, "KILL", exited, "idle")

\* One OdiffServer used by the threads, each calling __enter__, compare and
\* close in any order.
InitOdiff ==
    /\ TaskIdle
    /\ BatchIdle
    /\ OdiffInit
    /\ FilesIdle
    /\ CompareIdle
    /\ CategorizeIdle

NextOdiff ==
    \E t \in Threads :
        \/ Enter(t)
        \/ CompareAcquire(t)
        \/ CompareWrite(t)
        \/ CompareRead(t)
        \/ CloseTake(t)
        \/ CloseStreams(t)
        \/ CloseTerminate(t)
        \/ CloseKill(t)

SpecOdiff == InitOdiff /\ [][NextOdiff]_vars

\* ------------------------------------------------------------------ claims

\* The invocation is between passing the record-state gate and its terminal
\* write.
InRun(i) ==
    pc[i] \in {"load", "load_failed", "enter", "fetch", "compare", "results",
               "finish", "save_success", "except"}

\* The invocation loaded no manifest, spawned no engine and put no blob.
NoWork(i) == effects[i] \cap {"load", "spawn", "put"} = {}

\* The stored row with this primary key.
RowById(table, id) == CHOOSE r \in table : r.id = id

\* C1: at any time at most one invocation is between the gate and its
\* terminal write, the record is in PROCESSING for as long as it is, and an
\* invocation that returned at or before the gate did no comparison work.
C1_AtMostOneRun ==
    /\ Cardinality({i \in Invs : InRun(i)}) <= 1
    /\ \A i \in Invs :
          InRun(i) => RowById(rows, comparison[i][1].id).state = PROCESSING
    /\ \A i \in Invs :
          outcome[i] \in {"not_found", "comparison_not_found", "skipped"} => NoWork(i)

\* One invocation is comparing while another has returned at the gate.
C1_Witness ==
    \E i, j \in Invs : pc[i] = "compare" /\ outcome[j] = "skipped"

\* C2: an invocation whose conditional update finds the record in PROCESSING
\* or SUCCESS returns normally, and that step changes no row and no blob; the
\* invocation has loaded no manifest, spawned no engine and put no blob.
C2_SkipIsNoOp ==
    [][\A i \in Invs :
          (/\ pc[i] = "gate"
           /\ pc'[i] # "gate"
           /\ RowById(rows, comparison[i][1].id).state \in {PROCESSING, SUCCESS})
          => /\ pc'[i] = "done"
             /\ outcome'[i] = "skipped"
             /\ exc'[i] = None
             /\ NoWork(i)
             /\ effects'[i] = effects[i]
             /\ UNCHANGED <<rows, mask_blobs, comparison_blob>>]_vars

\* An invocation has returned at the gate while the record is in PROCESSING
\* for another one's run.
C2_Witness ==
    \E i, j \in Invs :
        /\ outcome[i] = "skipped"
        /\ pc[j] = "load"
        /\ \E r \in rows : r.state = PROCESSING

\* C3: every change of a row's state is PENDING -> PROCESSING, FAILED ->
\* PROCESSING, PROCESSING -> SUCCESS or PROCESSING -> FAILED; SUCCESS and
\* FAILED are written by the invocation that is in its run on that row, as
\* its last step; a row in SUCCESS is never changed.
C3_Transitions ==
    [][/\ \A r \in rows : \A q \in rows' :
             (q.id = r.id /\ q.state # r.state)
             => /\ <<r.state, q.state>> \in
                      { <<PENDING, PROCESSING>>, <<FAILED, PROCESSING>>,
                        <<PROCESSING, SUCCESS>>, <<PROCESSING, FAILED>> }
                /\ q.state \in {SUCCESS, FAILED}
                   => \E i \in Invs : /\ InRun(i)
                                      /\ comparison[i][1].id = r.id
                                      /\ pc'[i] = "done"
       /\ \A r \in rows : r.state = SUCCESS => r \in rows']_vars

\* A retry is in its run after an earlier invocation raised.
C3_Witness ==
    \E i, j \in Invs : outcome[i] = "raised" /\ InRun(j) /\ ~created[j]

\* C4: the pair never has more than one row and at most one invocation holds
\* created = TRUE; the loser of the creation race takes the existing row,
\* with created = FALSE, to the conditional update, and nothing is raised.
C4_OneRecord ==
    /\ [](/\ Cardinality(rows) <= 1
          /\ Cardinality({i \in Invs : created[i]}) <= 1)
    /\ [][\A i \in Invs :
             (pc[i] = "integrity" /\ pc'[i] # "integrity")
             => /\ pc'[i] = "gate"
                /\ ~created'[i]
                /\ comparison'[i] = <<ExistingRow(rows)>>
                /\ outcome'[i] = None
                /\ exc'[i] = None]_vars

\* The loser of the creation race has passed the gate and is in its run.
C4_Witness ==
    \E i \in Invs : "integrity_error" \in effects[i] /\ InRun(i)

\* C5: the conditional update of an invocation that finds the record in
\* PENDING or FAILED moves it to PROCESSING and the invocation goes on to load
\* the manifests; no other invocation is in a run then, and every other
\* invocation still before its conditional update will change no row.
C5_RetryTransitions ==
    [][\A i \in Invs :
          (/\ pc[i] = "gate"
           /\ pc'[i] # "gate"
           /\ RowById(rows, comparison[i][1].id).state \in {PENDING, FAILED})
          => /\ pc'[i] = "load"
             /\ RowById(rows', comparison[i][1].id).state = PROCESSING
             /\ \A j \in Invs \ {i} :
                   /\ ~InRun(j)
                   /\ pc[j] = "gate"
                      => RowById(rows', comparison[j][1].id).state
                            \notin {PENDING, FAILED}]_vars

\* Two invocations read the record in a retryable state; one has won the
\* conditional update, the other has yet to try.
C5_Witness ==
    \E i, j \in Invs :
        /\ i # j
        /\ pc[i] = "load"
        /\ ~created[i]
        /\ pc[j] = "gate"
        /\ comparison[j][1].state \in {PENDING, FAILED}

\* What a candidate's entry must be, given what happened to it.
EntryMatches(entry, happened) ==
    IF happened = "fetch_failed"
    THEN entry.status = "errored" /\ entry.reason = "image_fetch_failed"
    ELSE IF happened \in {"compare_failed", "no_output"}
    THEN entry.status = "errored" /\ entry.reason = "image_processing_failed"
    ELSE IF happened = "differs" THEN entry.status = "changed"
    ELSE happened = "same" /\ entry.status = "unchanged"

\* C6: when a run whose manifests loaded has left the batches, every
\* candidate was dealt with: one whose fetch failed is errored with
\* image_fetch_failed, one the comparator returned null for is errored with
\* image_processing_failed, every other one was compared; and a run in which
\* nothing was raised ends in SUCCESS with an entry for every candidate.
C6_PerImageFailuresContained ==
    \A i \in Invs :
        /\ pc[i] \in {"finish", "save_success"}
           => \A k \in 1..Len(Eligible) :
                 /\ Eligible[k].name \in DOMAIN run[i].seen
                 /\ Eligible[k].name \in DOMAIN run[i].image_results
                 /\ EntryMatches(run[i].image_results[Eligible[k].name],
                                 run[i].seen[Eligible[k].name])
        /\ (pc[i] = "done" /\ loaded[i] = "ok" /\ exc[i] = None)
           => /\ outcome[i] = "success"
              /\ \E r \in rows : r.id = comparison[i][1].id /\ r.state = SUCCESS
              /\ \A k \in 1..Len(Eligible) :
                    Eligible[k].name \in DOMAIN comparison_blob[1].images

\* A run ended in SUCCESS in which the fetch of "a.p" failed, its batch
\* sibling "b.p" came back null from the comparator, and "c.p" of the next
\* batch was compared and differs.
C6_Witness ==
    /\ head_manifest = MixedHead
    /\ outcome[1] = "success"
    /\ \E r \in rows : r.state = SUCCESS
    /\ comparison_blob # <<>>
    /\ comparison_blob[1].images[<<97, 46, 112>>].status = "errored"
    /\ comparison_blob[1].images[<<97, 46, 112>>].reason = "image_fetch_failed"
    /\ comparison_blob[1].images[<<98, 46, 112>>].status = "errored"
    /\ comparison_blob[1].images[<<98, 46, 112>>].reason = "image_processing_failed"
    /\ comparison_blob[1].images[<<99, 46, 112>>].status = "changed"

\* C7: an exception raised in the run reaches the handler; the handler's
\* step ends the invocation raising the exception it caught, and either
\* leaves the rows as they are (the save failed and was swallowed) or has
\* set the invocation's row to FAILED with INTERNAL_ERROR.
C7_HandlerReraises ==
    /\ [](\A i \in Invs :
            /\ exc[i] # None => pc[i] \in {"except", "done"}
            /\ pc[i] = "except" => exc[i] # None
            /\ outcome[i] = "raised" <=> (pc[i] = "done" /\ exc[i] # None))
    /\ [][\A i \in Invs :
             (pc[i] = "except" /\ pc'[i] # "except")
             => /\ pc'[i] = "done"
                /\ outcome'[i] = "raised"
                /\ exc'[i] = exc[i]
                /\ \/ rows' = rows
                   \/ /\ rows' = SaveState(rows, comparison'[i][1])
                      /\ RowById(rows', comparison[i][1].id).state = FAILED
                      /\ RowById(rows', comparison[i][1].id).error_code
                            = INTERNAL_ERROR]_vars

\* An invocation raised, the save of FAILED failed, and the record is left in
\* PROCESSING with no run on it.
C7_Witness ==
    /\ \E i \in Invs : outcome[i] = "raised" /\ exc[i] = "PutError"
    /\ \E r \in rows : r.state = PROCESSING
    /\ \A j \in Invs : ~InRun(j)

\* C8 as stated: a missing manifest key, like a failed fetch or parse, makes
\* the run return normally (its saves succeeding), having put no blob.
C8_Original ==
    \A i \in Invs :
        (/\ pc[i] = "done"
         /\ loaded[i] \in {"missing_key", "load_error"}
         /\ exc[i] # "DatabaseError")
        => outcome[i] # "raised" /\ "put" \notin effects[i]

\* C8 amended: a fetch or parse failure caught as JSONDecodeError,
\* RequestError, ValidationError or TypeError makes the run save FAILED with
\* INTERNAL_ERROR and return normally (if that save raises, the handler takes
\* over); a missing manifest key raises ValueError, which the handler records
\* as FAILED with INTERNAL_ERROR (best effort) and re-raises; in both cases no
\* engine is spawned and no blob is put.
C8_ManifestFailure ==
    /\ [](\A i \in Invs :
            /\ (pc[i] = "done" /\ loaded[i] = "load_error")
               => \/ outcome[i] = "load_failed" /\ exc[i] = None
                  \/ outcome[i] = "raised" /\ exc[i] = "DatabaseError"
            /\ (pc[i] = "done" /\ loaded[i] = "missing_key")
               => outcome[i] = "raised" /\ exc[i] = "ValueError"
            /\ loaded[i] \in {"missing_key", "load_error"}
               => effects[i] \cap {"spawn", "put"} = {})
    /\ [][\A i \in Invs :
             (/\ loaded[i] \in {"missing_key", "load_error"}
              /\ pc[i] # "done"
              /\ pc'[i] = "done")
             => \/ pc[i] = "except" /\ rows' = rows
                \/ /\ RowById(rows', comparison[i][1].id).state = FAILED
                   /\ RowById(rows', comparison[i][1].id).error_code
                         = INTERNAL_ERROR]_vars

\* An invocation that found a manifest key missing has raised ValueError and
\* the record is FAILED with INTERNAL_ERROR.
C8_Witness ==
    \E i \in Invs :
        /\ loaded[i] = "missing_key"
        /\ outcome[i] = "raised"
        /\ \E r \in rows : r.state = FAILED /\ r.error_code = INTERNAL_ERROR

\* C9: a row in SUCCESS names the comparison manifest's key, the manifest is
\* in the object store, written by the invocation that ended in success, and
\* the row's counts are the manifest's summary counts.
C9_SuccessNamesItsManifest ==
    \A r \in rows :
        r.state = SUCCESS
        => /\ r.comparison_key = ComparisonKey
           /\ comparison_blob # <<>>
           /\ \E i \in Invs : /\ outcome[i] = "success"
                              /\ comparison[i][1].id = r.id
                              /\ comparison_blob[1].writer = i
           /\ r.images_changed = comparison_blob[1].summary.changed
           /\ r.images_unchanged = comparison_blob[1].summary.unchanged
           /\ r.images_added = comparison_blob[1].summary.added
           /\ r.images_removed = comparison_blob[1].summary.removed
           /\ r.error_code = None

\* A retry ended in SUCCESS with a changed image, after an earlier
\* invocation's run had written a manifest and then failed.
C9_Witness ==
    \E r \in rows : \E i, j \in Invs :
        /\ r.state = SUCCESS
        /\ r.images_changed = 1
        /\ r.images_removed = 1
        /\ outcome[i] = "raised"
        /\ exc[i] = "DatabaseError"
        /\ outcome[j] = "success"

\* C10: the batches _create_pixel_batches returns, concatenated in order, are
\* the input list, and none of them is empty.
C10_BatchesPartitionInput ==
    batch_pc = "returned"
    => /\ Flatten(batch_output) = batch_input
       /\ \A k \in DOMAIN batch_output : batch_output[k] # <<>>

\* A call returned several batches, one of them with several candidates.
C10_Witness ==
    /\ batch_pc = "returned"
    /\ Len(batch_output) >= 2
    /\ \E k \in DOMAIN batch_output : Len(batch_output[k]) >= 2

\* C11: every batch returned by _create_pixel_batches has a pixel_count sum
\* within the budget, or is a single candidate that alone exceeds the budget.
C11_BatchesWithinBudget ==
    batch_pc = "returned"
    => \A k \in DOMAIN batch_output :
          \/ SumPixels(batch_output[k]) <= batch_budget
          \/ /\ Len(batch_output[k]) = 1
             /\ batch_output[k][1].pixel_count > batch_budget

\* An over-budget candidate is alone in its batch and the candidate after it
\* has no pixels.
C11_Witness ==
    /\ batch_pc = "returned"
    /\ \E k \in DOMAIN batch_output :
          /\ Len(batch_output[k]) = 1
          /\ batch_output[k][1].pixel_count > batch_budget
          /\ k < Len(batch_output)
          /\ batch_output[k + 1][1].pixel_count = 0

\* The image_file_names a manifest lists.
NamesOf(images) == {images[k].image_file_name : k \in DOMAIN images}

\* C12: a written comparison manifest has an entry for exactly the names of
\* the head and the base manifest; a name only in head is added, a name only
\* in base removed, a name in both unchanged, changed or errored, whatever the
\* hashes are.
C12_EntriesByName ==
    comparison_blob # <<>>
    => LET images == comparison_blob[1].images
           H == NamesOf(head_manifest)
           B == NamesOf(base_manifest)
       IN  /\ DOMAIN images = H \cup B
           /\ \A n \in H \ B : images[n].status = "added"
           /\ \A n \in B \ H : images[n].status = "removed"
           /\ \A n \in H \cap B :
                 images[n].status \in {"unchanged", "changed", "errored"}

\* A manifest was written for a pair in which an added and a removed name
\* carry the same hash, next to a matched name.
C12_Witness ==
    /\ comparison_blob # <<>>
    /\ outcome[1] = "success"
    /\ \E h \in DOMAIN head_manifest, b \in DOMAIN base_manifest :
          /\ head_manifest[h].hash = base_manifest[b].hash
          /\ comparison_blob[1].images[head_manifest[h].image_file_name].status = "added"
          /\ comparison_blob[1].images[base_manifest[b].image_file_name].status = "removed"
    /\ \E n \in DOMAIN comparison_blob[1].images :
          comparison_blob[1].images[n].status = "changed"

\* The invocation is past the classification of the names.
Classified(i) ==
    pc[i] \in {"enter", "fetch", "compare", "results", "finish", "save_success"}
    \/ (pc[i] = "except" /\ loaded[i] = "ok")

\* The matched names whose head hash equals their base hash.
HashEqualNames ==
    {n \in NamesOf(head_manifest) \cap NamesOf(base_manifest) :
        ByName(head_manifest)[n] = ByName(base_manifest)[n]}

\* C13: a matched name with equal hashes is recorded unchanged, and the run
\* never fetches its images nor hands it to the comparator.
C13_HashEqualNotCompared ==
    \A i \in Invs : \A n \in HashEqualNames :
        /\ Classified(i)
           => /\ n \notin DOMAIN run[i].seen
              /\ \A k \in DOMAIN run[i].batch_names : run[i].batch_names[k] # n
              /\ run[i].image_results[n] =
                    [status |-> "unchanged",
                     head_hash |-> ByName(head_manifest)[n],
                     base_hash |-> ByName(base_manifest)[n]]
        /\ (comparison_blob # <<>> /\ comparison_blob[1].writer = i)
           => comparison_blob[1].images[n] =
                    [status |-> "unchanged",
                     head_hash |-> ByName(head_manifest)[n],
                     base_hash |-> ByName(base_manifest)[n]]

\* A run compared its candidates and wrote its manifest while a name with
\* equal hashes was never fetched.
C13_Witness ==
    /\ head_manifest = MixedHead
    /\ pc[1] = "save_success"
    /\ <<117, 46, 112>> \in HashEqualNames
    /\ <<117, 46, 112>> \notin DOMAIN run[1].seen
    /\ <<97, 46, 112>> \in DOMAIN run[1].seen
    /\ comparison_blob[1].images[<<117, 46, 112>>].status = "unchanged"

\* max(head_width * head_height, base_width * base_height) of a matched name.
PixelCountOf(n) ==
    LET head_meta == MetaOf(head_manifest, ByName(head_manifest)[n])
        base_meta == MetaOf(base_manifest, ByName(base_manifest)[n])
        head_pixels == head_meta.width * head_meta.height
        base_pixels == base_meta.width * base_meta.height
    IN  IF head_pixels >= base_pixels THEN head_pixels ELSE base_pixels

\* The matched names with differing hashes.
DifferingNames ==
    (NamesOf(head_manifest) \cap NamesOf(base_manifest)) \ HashEqualNames

\* C14: a matched name with differing hashes and more than 40,000,000 pixels
\* is recorded errored with exceeds_pixel_limit, counted in summary.errored
\* and never fetched nor handed to the comparator; with 40,000,000 pixels or
\* fewer it is a candidate, fetched by the time the batches are over.
C14_OversizedSkipped ==
    \A i \in Invs : \A n \in DifferingNames :
        /\ (Classified(i) /\ PixelCountOf(n) > 40000000)
           => /\ n \notin DOMAIN run[i].seen
              /\ \A k \in DOMAIN run[i].batch_names : run[i].batch_names[k] # n
              /\ n \in DOMAIN run[i].image_results
              /\ run[i].image_results[n] =
                    Errored(ByName(head_manifest)[n], ByName(base_manifest)[n],
                            "exceeds_pixel_limit")
              /\ run[i].error_count >=
                    Cardinality({m \in DifferingNames : PixelCountOf(m) > 40000000})
        /\ (comparison_blob # <<>> /\ comparison_blob[1].writer = i
              /\ PixelCountOf(n) > 40000000)
           => /\ comparison_blob[1].images[n].status = "errored"
              /\ comparison_blob[1].images[n].reason = "exceeds_pixel_limit"
              /\ comparison_blob[1].summary.errored >=
                    Cardinality({m \in DifferingNames : PixelCountOf(m) > 40000000})
        /\ (pc[i] \in {"finish", "save_success"} /\ PixelCountOf(n) <= 40000000)
           => n \in DOMAIN run[i].seen

\* A run skipped a pair that is oversized in base only and compared a pair
\* of exactly 40,000,000 pixels.
C14_Witness ==
    /\ pc[1] = "save_success"
    /\ \E n \in DifferingNames :
          /\ PixelCountOf(n) > 40000000
          /\ MetaOf(head_manifest, ByName(head_manifest)[n]).width = 10
          /\ comparison_blob[1].images[n].reason = "exceeds_pixel_limit"
    /\ \E n \in DifferingNames :
          /\ PixelCountOf(n) = 40000000
          /\ run[1].seen[n] = "differs"
          /\ comparison_blob[1].images[n].status = "changed"

\* The number of entries of a manifest's images with this status.
CountStatus(images, status) ==
    Cardinality({n \in DOMAIN images : images[n].status = status})

\* C15: in a written comparison manifest every summary count is the number
\* of entries with that status, and total is the number of matched, added
\* and removed names, the sum of the five counts and the number of entries.
C15_SummaryTallies ==
    comparison_blob # <<>>
    => LET images == comparison_blob[1].images
           summary == comparison_blob[1].summary
           H == NamesOf(head_manifest)
           B == NamesOf(base_manifest)
       IN  /\ summary.changed = CountStatus(images, "changed")
           /\ summary.unchanged = CountStatus(images, "unchanged")
           /\ summary.added = CountStatus(images, "added")
           /\ summary.removed = CountStatus(images, "removed")
           /\ summary.errored = CountStatus(images, "errored")
           /\ summary.total = Cardinality(H \cap B) + Cardinality(H \ B)
                                + Cardinality(B \ H)
           /\ summary.total = summary.changed + summary.unchanged + summary.added
                                + summary.removed + summary.errored
           /\ summary.total = Cardinality(DOMAIN images)

\* A manifest was written after a fetch failure, a comparator failure and an
\* oversized pair, next to changed, unchanged, added and removed names.
C15_Witness ==
    /\ comparison_blob # <<>>
    /\ comparison_blob[1].summary.errored = 3
    /\ \E n, m, o \in DOMAIN comparison_blob[1].images :
          /\ comparison_blob[1].images[n].status = "errored"
          /\ comparison_blob[1].images[n].reason = "image_fetch_failed"
          /\ comparison_blob[1].images[m].status = "errored"
          /\ comparison_blob[1].images[m].reason = "image_processing_failed"
          /\ comparison_blob[1].images[o].status = "errored"
          /\ comparison_blob[1].images[o].reason = "exceeds_pixel_limit"
    /\ comparison_blob[1].summary.changed = 1
    /\ comparison_blob[1].summary.unchanged = 1
    /\ comparison_blob[1].summary.added = 2
    /\ comparison_blob[1].summary.removed = 2

\* The children with a request written and not yet answered.
InFlight == {c \in DOMAIN children : children[c].inflight # 0}

\* A request in flight belongs to the thread that holds the lock, is reading
\* and has the child as its local; the child is the one held.
InFlightState ==
    /\ Cardinality(InFlight) <= 1
    /\ \A c \in InFlight :
          /\ lock = children[c].inflight
          /\ process = c
          /\ LET th == threads[children[c].inflight]
             IN  th.pc = "cmp_read" /\ th.proc = c

\* A step that touches a child with a request in flight, spawns a child or
\* changes the handle, the lock or the request counter meanwhile is the step
\* of the thread whose request it is, ending its call.
InFlightStep ==
    \A c \in InFlight :
        (children'[c] # children[c] \/ Len(children') # Len(children)
            \/ process' # process \/ request_id' # request_id \/ lock' # lock)
        => /\ threads'[children[c].inflight].pc = "idle"
           /\ \A u \in Threads \ {children[c].inflight} :
                 threads'[u] = threads[u]
           /\ last_call'.thread = children[c].inflight

\* C16: at most one request of an OdiffServer is in flight at any time, and
\* between the write of a request and the read of its response (or the kill)
\* no other thread writes to, reads from, spawns or kills a child of it.
C16_OneRequestInFlight == []InFlightState /\ [][InFlightStep]_vars

\* A request is in flight while another thread is in the middle of closing
\* the child it took earlier.
C16_Witness ==
    \E c \in InFlight : \E u \in Threads :
        /\ u # children[c].inflight
        /\ threads[u].pc \in {"close_streams", "close_term", "close_kill"}
        /\ threads[u].proc # c

\* This signal was sent to the child.
Signalled(child, sig) == \E k \in DOMAIN child.signals : child.signals[k] = sig

\* The process-level failures of compare, as the caller sees them.
HardErrors ==
    {"RuntimeError: died unexpectedly", "RuntimeError: timed out after 30s",
     "RuntimeError: exited unexpectedly"}

\* A child on which a write or a read failed is killed and is not the child
\* held, and has no request in flight.
FailedChildGone ==
    \A c \in DOMAIN children :
        children[c].failed
        => /\ process # c
           /\ Signalled(children[c], "KILL")
           /\ children[c].inflight = 0

\* The step on which a failure is observed kills the child, sets the handle
\* to None and ends the call raising; a step that writes a request writes it
\* to a child that signalled ready, never failed and was never signalled.
FailureStep ==
    \A c \in DOMAIN children :
        /\ (children'[c].failed /\ ~children[c].failed)
           => /\ process' = 0
              /\ Signalled(children'[c], "KILL")
              /\ last_call'.call = "compare"
              /\ last_call'.child = c
              /\ last_call'.result \in HardErrors
        /\ (children'[c].inflight # 0 /\ children[c].inflight = 0)
           => /\ children[c].ready
              /\ ~children[c].failed
              /\ children[c].signals = <<>>
              /\ process = c

\* C17: when the write fails, the read times out or the read returns an
\* empty line, compare kills the child and sets the handle to None before
\* the error reaches the caller; no request is ever written to such a child,
\* the next compare writing to a newly spawned child that signalled ready.
C17_FailedChildNeverReused == []FailedChildGone /\ [][FailureStep]_vars

\* After a failure on one child a request was written to a later child.
C17_Witness ==
    \E c, d \in DOMAIN children :
        /\ c < d
        /\ children[c].failed
        /\ children[d].ready
        /\ children[d].inflight # 0

\* A thread is closing this child.
BeingClosed(c) ==
    \E u \in Threads :
        threads[u].pc \in {"close_streams", "close_term", "close_kill"}
        /\ threads[u].proc = c

\* A child that answered with an error stays the child held, unsignalled,
\* until a failure is seen on it or close takes it.
ErredChildKept ==
    \A c \in DOMAIN children :
        (children[c].erred /\ ~children[c].failed /\ children[c].signals = <<>>
            /\ ~BeingClosed(c))
        => process = c

\* The step that reads a response with an error ends the call raising the
\* error and leaves the handle and the child's signals as they are; a
\* compare that finds a child held writes to it and spawns nothing.
ErrorReplyStep ==
    /\ \A c \in InFlight :
          (children'[c].inflight = 0 /\ last_call'.result = "RuntimeError: odiff error")
          => /\ children'[c].erred
             /\ process' = c
             /\ children'[c].signals = <<>>
             /\ ~children'[c].failed
             /\ Len(children') = Len(children)
             /\ lock' = 0
             /\ threads'[children[c].inflight].pc = "idle"
    /\ \A t \in Threads :
          (threads[t].pc = "idle" /\ threads'[t].pc = "cmp_write" /\ process # 0)
          => /\ threads'[t].proc = process
             /\ children' = children

StartupErrors ==
    {"RuntimeError: timed out waiting for ready", "RuntimeError: failed to start",
     "JSONDecodeError"}

\* A child that did not signal ready was killed at once, is not the child
\* held and never had a request written to it; the child held signalled
\* ready.
UnreadyChildGone ==
    /\ \A c \in DOMAIN children :
          ~children[c].ready
          => /\ process # c
             /\ children[c].signals = <<"KILL">>
             /\ children[c].inflight = 0
             /\ ~children[c].failed
             /\ ~children[c].erred
    /\ process # 0 => children[process].ready

\* The step that spawns a child which does not signal ready ends the call
\* raising a startup error and leaves the handle None.
StartFailureStep ==
    (Len(children') > Len(children) /\ ~children'[Len(children')].ready)
    => /\ process = 0
       /\ process' = 0
       /\ lock' = 0
       /\ last_call'.call \in {"enter", "compare"}
       /\ last_call'.child = Len(children')
       /\ last_call'.result \in StartupErrors
       /\ request_id' = request_id

\* C19: when no ready line arrives in time or the first line does not signal
\* ready, starting the engine raises, the spawned child is killed and the
\* handle stays None; no request is sent to a child that never signalled
\* ready.
C19_StartupFailure == []UnreadyChildGone /\ [][StartFailureStep]_vars

\* A compare failed to start a child, and a later child signalled ready and
\* has a request in flight.
C19_Witness ==
    \E c, d \in DOMAIN children :
        /\ c < d
        /\ ~children[c].ready
        /\ children[c].signals = <<"KILL">>
        /\ children[d].ready
        /\ children[d].inflight # 0

\* What close and the kills do to a child, in the order close takes.
Escalations ==
    {<<>>, <<"KILL">>, <<"close">>, <<"close", "TERM">>, <<"close", "TERM", "KILL">>}

\* The child a thread is closing or closed last is not the child held; what
\* was done to a child follows the order of close; the child of a close that
\* ended was seen to exit by the last wait or was sent SIGKILL.
ClosedChildGone ==
    /\ \A c \in DOMAIN children :
          /\ children[c].signals \in Escalations
          /\ BeingClosed(c) => process # c
    /\ (last_call.call = "close" /\ last_call.child # 0)
       => /\ process # last_call.child
          /\ \/ children[last_call.child].exited
             \/ children[last_call.child].signals = <<"close", "TERM", "KILL">>

\* close sets the handle to None when it takes the child and leaves it alone
\* afterwards; a further step of close is taken only if the wait before it
\* did not see the child exit; close ends when a wait sees the child exit
\* or after SIGKILL.
CloseSteps ==
    \A t \in Threads :
        /\ (threads[t].pc = "idle" /\ threads'[t].pc = "close_streams")
           => /\ process' = 0
              /\ threads'[t].proc = process
              /\ children[process].signals = <<>>
        /\ threads[t].pc \in {"close_streams", "close_term", "close_kill"}
           => LET c == threads[t].proc IN
              /\ children'[c].signals # children[c].signals
                 => /\ ~children[c].exited
                    /\ process' = process
              /\ threads'[t].pc = "idle"
                 => /\ last_call' = Call(t, "close", "closed", c)
                    /\ children'[c].exited
                          \/ children'[c].signals = <<"close", "TERM", "KILL">>
                    /\ process' = 0 \/ process' > c

\* C20: when close ends, the handle does not name the child close held (it
\* is None unless another thread has started a later child), and that child
\* has exited or was sent SIGKILL, after stdin/stdout close, wait, SIGTERM,
\* wait, SIGKILL, each later step taken only if the wait before it timed out.
C20_CloseTerminatesChild == []ClosedChildGone /\ [][CloseSteps]_vars

\* A close ended after SIGTERM: the child did not exit when its streams were
\* closed and did after the signal.
C20_Witness ==
    /\ last_call.call = "close"
    /\ last_call.child # 0
    /\ children[last_call.child].signals = <<"close", "TERM">>
    /\ children[last_call.child].exited
    /\ process = 0

\* The candidate of the run that has the name n.
CandidateNamed(n) ==
    Eligible[CHOOSE k \in DOMAIN Eligible : Eligible[k].name = n]

\* A result, or the entry made of it, has the sizes of candidate c's images:
\* before is the base image, after the head image.
ProducedBy(res, c) ==
    /\ res.before_width = MetaOf(base_manifest, c.base_hash).width
    /\ res.before_height = MetaOf(base_manifest, c.base_hash).height
    /\ res.after_width = MetaOf(head_manifest, c.head_hash).width
    /\ res.after_height = MetaOf(head_manifest, c.head_hash).height

\* An entry made of a DiffResult (hash-equal names are entered unchanged
\* without one).
HasDiffFields(entry) == "changed_pixels" \in DOMAIN entry

\* The lists zipped at the end of a batch are aligned, and every compared
\* entry has the hashes and the sizes of the candidate it is named after.
Attributed(i) ==
    LET r == run[i] IN
    /\ Len(r.batch_names) = Len(r.diff_pairs)
    /\ Len(r.batch_hashes) = Len(r.diff_pairs)
    /\ Len(r.diff_results) <= Len(r.diff_pairs)
    /\ pc[i] = "results" => Len(r.diff_results) = Len(r.diff_pairs)
    /\ \A k \in 1..Len(r.diff_pairs) :
          /\ \E j \in DOMAIN Batches[r.b] : Batches[r.b][j].name = r.batch_names[k]
          /\ LET c == CandidateNamed(r.batch_names[k]) IN
             /\ r.batch_hashes[k] = <<c.head_hash, c.base_hash>>
             /\ r.diff_pairs[k] = <<c.base_hash, c.head_hash>>
             /\ k \in DOMAIN r.diff_results =>
                   \/ r.diff_results[k].null
                   \/ ProducedBy(r.diff_results[k], c)
    /\ \A n \in DOMAIN r.image_results :
          HasDiffFields(r.image_results[n]) =>
             /\ r.image_results[n].head_hash = CandidateNamed(n).head_hash
             /\ r.image_results[n].base_hash = CandidateNamed(n).base_hash
             /\ ProducedBy(r.image_results[n], CandidateNamed(n))
             /\ n \in DOMAIN r.seen
             /\ r.seen[n] \in {"same", "differs"}
             /\ r.image_results[n].status = "changed" <=> r.seen[n] = "differs"

\* Entry idx of what compare_images_batch returned is the result of pair idx.
OnePerPair ==
    (cmp_batch # <<>> /\ cmp_batch[1].raised = None) =>
        /\ Len(cmp_batch[1].value) = Len(cmp_pairs)
        /\ \A idx \in 1..Len(cmp_pairs) :
              cmp_batch[1].value[idx] =
                  CompareSinglePair(cmp_pairs[idx][1], cmp_pairs[idx][2],
                                    cmp_engine.reply[cmp_pairs[idx]])

\* C21: compare_images_batch returns one entry per pair, entry idx being the
\* result (or None) of pair idx, and in a run every diff result is attributed
\* to the name and the hashes of the candidate whose images produced it, also
\* when candidates of the batch were dropped because their fetch failed.
C21_ResultsAligned ==
    /\ OnePerPair
    /\ \A i \in Invs :
          pc[i] \in {"fetch", "compare", "results", "finish", "save_success"} =>
             Attributed(i)

\* A batch whose first candidate could not be fetched and whose second one
\* was compared and recorded.
C21_Witness ==
    /\ <<97, 46, 112>> \in DOMAIN run[1].seen
    /\ run[1].seen[<<97, 46, 112>>] = "fetch_failed"
    /\ <<98, 46, 112>> \in DOMAIN run[1].image_results
    /\ run[1].image_results[<<98, 46, 112>>].status = "changed"

\* Both calls were made, and the batch was the single call's pair alone.
SamePairCompared ==
    /\ cmp_batch # <<>>
    /\ cmp_single # <<>>
    /\ cmp_pairs = << <<cmp_single[1].before, cmp_single[1].after>> >>

BatchReturned == cmp_batch # <<>> /\ cmp_batch[1].raised = None

\* The engine's reply to pair idx of cmp_pairs.
ReplyTo(idx) == cmp_engine.reply[cmp_pairs[idx]]

\* C23: a successfully compared pair's result has width = the larger of the
\* two widths, aligned_height = the larger of the two heights, total_pixels =
\* width * aligned_height, and before_/after_ width and height equal to the
\* sizes of the images passed; 30 x 30 against 50 x 50 gives 50 and 50.
C23_AlignedDimensions ==
    BatchReturned =>
        \A idx \in 1..Len(cmp_pairs) :
            LET before == cmp_pairs[idx][1]
                after == cmp_pairs[idx][2]
                res == cmp_batch[1].value[idx]
            IN  ~res.null =>
                   /\ res.width \in {before.width, after.width}
                   /\ res.width >= before.width /\ res.width >= after.width
                   /\ res.aligned_height \in {before.height, after.height}
                   /\ res.aligned_height >= before.height
                   /\ res.aligned_height >= after.height
                   /\ res.total_pixels = res.width * res.aligned_height
                   /\ res.before_width = before.width
                   /\ res.before_height = before.height
                   /\ res.after_width = after.width
                   /\ res.after_height = after.height
                   /\ (before = SmallImage /\ after = LargeImage) =>
                         (res.width = 50 /\ res.aligned_height = 50)

\* A pair whose first image is the wider and whose second is the taller was
\* compared, after the 30 x 30 against 50 x 50 pair.
C23_Witness ==
    /\ BatchReturned
    /\ Len(cmp_pairs) = 2
    /\ cmp_pairs[1] = <<SmallImage, LargeImage>>
    /\ cmp_pairs[2] = <<WideImage, TallImage>>
    /\ ~cmp_batch[1].value[1].null
    /\ ~cmp_batch[1].value[2].null
    /\ cmp_batch[1].value[2].width = 50
    /\ cmp_batch[1].value[2].aligned_height = 40

\* The engine answered pair idx and counted no changed pixel.
ZeroReported(idx) ==
    /\ ReplyTo(idx).ok
    /\ ReplyTo(idx).diffCount \in {<<>>, <<0>>}

\* C24: when the engine reports zero changed pixels the result is not None,
\* has changed_pixels = 0 and diff_score = 0, and its mask is all zero and of
\* the aligned size, whether or not the engine wrote an output file.
C24_ZeroDiffSynthesizesMask ==
    BatchReturned =>
        \A idx \in 1..Len(cmp_pairs) :
            LET before == cmp_pairs[idx][1]
                after == cmp_pairs[idx][2]
                res == cmp_batch[1].value[idx]
            IN  ZeroReported(idx) =>
                   /\ ~res.null
                   /\ res.changed_pixels = 0
                   /\ res.diff_score[1] = 0
                   /\ res.diff_mask_png.pixels = "zero"
                   /\ res.diff_mask_png.width = res.width
                   /\ res.diff_mask_png.height = res.aligned_height
                   /\ res.diff_mask_png.width >= before.width
                   /\ res.diff_mask_png.width >= after.width
                   /\ res.diff_mask_png.height >= before.height
                   /\ res.diff_mask_png.height >= after.height

\* Zero changed pixels were reported once with and once without an output
\* file, and both pairs have a result.
C24_Witness ==
    /\ BatchReturned
    /\ Len(cmp_pairs) = 2
    /\ ZeroReported(1) /\ ~ReplyTo(1).output_exists
    /\ ZeroReported(2) /\ ReplyTo(2).output_exists
    /\ ~cmp_batch[1].value[1].null
    /\ ~cmp_batch[1].value[2].null

\* The diff ratio of an image as a fraction, a missing ratio counting as 0.
RatioOf(n) ==
    IF cat_images[n].changed_pixels = <<>> \/ cat_images[n].total_pixels = <<>>
       \/ cat_images[n].total_pixels = <<0>>
    THEN <<0, 1>>
    ELSE <<cat_images[n].changed_pixels[1], cat_images[n].total_pixels[1]>>

\* C25: the changed pairs returned are those of the changed images that have
\* a head image, in descending order of diff ratio (changed_pixels /
\* total_pixels, a missing ratio counting as 0); two pairs of equal ratio are
\* in ascending lexicographic order of their image names.
C25_ChangedSortedByRatio ==
    cat_pc = "returned" =>
        LET changed == cat_result[1].changed IN
        /\ {changed[k].name : k \in 1..Len(changed)} =
              {n \in DOMAIN cat_images :
                  cat_images[n].status = "changed" /\ n \in cat_heads}
        /\ \A j, k \in 1..Len(changed) :
              j < k =>
                 LET rj == RatioOf(changed[j].name)
                     rk == RatioOf(changed[k].name)
                 IN  /\ rj[1] * rk[2] >= rk[1] * rj[2]
                     /\ rj[1] * rk[2] = rk[1] * rj[2] =>
                           StrLess(changed[j].name, changed[k].name)

\* Three changed pairs came back: two of ratio one half, "a" before "ab", and
\* then "b" of no ratio.
C25_Witness ==
    /\ cat_pc = "returned"
    /\ Len(cat_result[1].changed) = 3
    /\ cat_result[1].changed[1] = [name |-> <<97>>, diff |-> <<2, 4>>]
    /\ cat_result[1].changed[2] = [name |-> <<97, 98>>, diff |-> <<1, 2>>]
    /\ cat_result[1].changed[3] = [name |-> <<98>>, diff |-> <<>>]

\* The fields only an entry made of a DiffResult may carry.
DiffOnlyFields == {"changed_pixels", "total_pixels", "diff_mask_key"}

\* The run saw the engine answer for the image n with an output it could use.
WentThroughComparison(n, seen) ==
    n \in DOMAIN seen /\ seen[n] \in {"same", "differs"}

\* An entry of the comparison manifest; `seen` is what the run that has just
\* written it saw of its images.
EntryWellFormed(n, entry, seen, blobs, written) ==
    /\ written => (WentThroughComparison(n, seen) <=> HasDiffFields(entry))
    /\ HasDiffFields(entry) =>
          /\ entry.status = "changed" <=> entry.changed_pixels > 0
          /\ entry.status = "unchanged" <=> entry.changed_pixels = 0
          /\ "total_pixels" \in DOMAIN entry
          /\ "diff_mask_key" \in DOMAIN entry
          /\ entry.diff_mask_key \in DOMAIN blobs
    /\ entry.status \in {"added", "removed", "errored"} =>
          DOMAIN entry \cap DiffOnlyFields = {}

\* Every entry of the written manifest is well formed.
ManifestWellFormed ==
    comparison_blob # <<>> =>
        \A n \in DOMAIN comparison_blob[1].images :
            EntryWellFormed(n, comparison_blob[1].images[n],
                            run[comparison_blob[1].writer].seen, mask_blobs,
                            pc[comparison_blob[1].writer] = "save_success")

\* When the manifest is written, the masks its entries name are there already.
ManifestWrite ==
    comparison_blob' # comparison_blob =>
        \A n \in DOMAIN comparison_blob'[1].images :
            HasDiffFields(comparison_blob'[1].images[n]) =>
                comparison_blob'[1].images[n].diff_mask_key \in DOMAIN mask_blobs

\* C26: in a successful run an image that was compared pixel by pixel is
\* 'changed' iff its changed_pixels > 0 and 'unchanged' iff changed_pixels =
\* 0, and its entry has a diff_mask_key whose mask was uploaded before the
\* comparison manifest was written; added, removed and errored entries have
\* no changed_pixels, total_pixels or diff_mask_key.
C26_EntriesByStatus == []ManifestWellFormed /\ [][ManifestWrite]_vars

\* A successful run with a changed and an unchanged compared image, an added,
\* a removed and an errored one.
C26_Witness ==
    /\ outcome[1] = "success"
    /\ comparison_blob # <<>>
    /\ LET images == comparison_blob[1].images IN
       /\ {<<97, 46, 112>>, <<98, 46, 112>>, <<110, 46, 112>>, <<114, 46, 112>>,
           <<111, 46, 112>>} \subseteq DOMAIN images
       /\ images[<<97, 46, 112>>].status = "changed"
       /\ HasDiffFields(images[<<98, 46, 112>>])
       /\ images[<<98, 46, 112>>].status = "unchanged"
       /\ images[<<110, 46, 112>>].status = "added"
       /\ images[<<114, 46, 112>>].status = "removed"
       /\ images[<<111, 46, 112>>].status = "errored"

\* C27: _create_pixel_batches closes a batch only when the next candidate
\* would not fit: for consecutive batches, the pixel sum of the earlier one
\* plus the pixel_count of the first candidate of the later one exceeds
\* max_pixels_per_batch.
C27_BatchesGreedy ==
    batch_pc = "returned"
    => \A k \in 1..(Len(batch_output) - 1) :
          SumPixels(batch_output[k]) + batch_output[k + 1][1].pixel_count
             > batch_budget

\* A batch of two candidates that fills the budget exactly is followed by
\* another batch.
C27_Witness ==
    /\ batch_pc = "returned"
    /\ Len(batch_output) >= 2
    /\ Len(batch_output[1]) = 2
    /\ batch_output[1][2].pixel_count > 0
    /\ SumPixels(batch_output[1]) = batch_budget

\* The engine answered pair idx with changed pixels and wrote no output file.
OutputMissing(idx) ==
    /\ ReplyTo(idx).ok
    /\ OrZero(ReplyTo(idx).diffCount) > 0
    /\ ~ReplyTo(idx).output_exists

\* The engine answered pair idx and left everything the comparator needs.
OutputUsable(idx) ==
    /\ ReplyTo(idx).ok
    /\ OrZero(ReplyTo(idx).diffCount) = 0 \/ ReplyTo(idx).output_exists

\* In a returned list, a pair whose output is missing has None and the pairs
\* whose output is usable have their results.
MissingOutputIsNone ==
    BatchReturned =>
        \A idx \in 1..Len(cmp_pairs) :
            /\ OutputMissing(idx) => cmp_batch[1].value[idx] = NullResult
            /\ OutputUsable(idx) =>
                  /\ ~cmp_batch[1].value[idx].null
                  /\ cmp_batch[1].value[idx].changed_pixels
                        = OrZero(ReplyTo(idx).diffCount)

\* In a run, a name whose pair's output was missing is entered as errored,
\* image_processing_failed, and no mask was put for it; the names of the
\* other compared pairs have their entries and masks.  When the batches are
\* over, every compared name is entered.
MissingOutputIsErrored(i) ==
    LET r == run[i] IN
    \A n \in DOMAIN r.seen :
        /\ r.seen[n] = "no_output" =>
              /\ \A key \in DOMAIN mask_blobs : mask_blobs[key].name # n
              /\ n \in DOMAIN r.image_results =>
                    r.image_results[n] =
                        Errored(CandidateNamed(n).head_hash,
                                CandidateNamed(n).base_hash,
                                "image_processing_failed")
        /\ (r.seen[n] \in {"same", "differs"} /\ n \in DOMAIN r.image_results) =>
              /\ HasDiffFields(r.image_results[n])
              /\ r.image_results[n].diff_mask_key \in DOMAIN mask_blobs
        /\ (r.seen[n] \in {"no_output", "same", "differs"}
              /\ pc[i] \in {"finish", "save_success"}) =>
              n \in DOMAIN r.image_results

\* C28: when the engine reports changed pixels but the output mask file does
\* not exist, the pair's result is None (in a run: the image is entered as
\* errored with reason image_processing_failed and no mask is uploaded for
\* it), and the other pairs of the batch are not affected.
C28_MissingOutputFailsPair ==
    /\ MissingOutputIsNone
    /\ \A i \in Invs :
          pc[i] \in {"fetch", "compare", "results", "finish", "save_success"} =>
             MissingOutputIsErrored(i)

\* A run whose first pair had changed pixels and no output file, and whose
\* second pair of the same batch was entered as changed.
C28_Witness ==
    /\ pc[1] = "save_success"
    /\ <<97, 46, 112>> \in DOMAIN run[1].seen
    /\ run[1].seen[<<97, 46, 112>>] = "no_output"
    /\ {<<97, 46, 112>>, <<98, 46, 112>>} \subseteq DOMAIN run[1].image_results
    /\ run[1].image_results[<<97, 46, 112>>].status = "errored"
    /\ run[1].image_results[<<98, 46, 112>>].status = "changed"
    /\ <<98>> \in DOMAIN mask_blobs

\* C29: the requestId values one OdiffServer passes to its children are 1, 2,
\* 3, ... in the order the requests are written: each is one more than the
\* one before, none is used twice, and the count goes on when a child was
\* killed and another one started.
C29_RequestIdsIncrease ==
    /\ \A k \in 1..Len(written_ids) : written_ids[k] = k
    /\ Len(written_ids) = request_id

\* The first child was killed, and the request written to the second child
\* has the id 2.
C29_Witness ==
    /\ Len(children) = 2
    /\ "KILL" \in {children[1].signals[k] : k \in DOMAIN children[1].signals}
    /\ children[1].failed
    /\ children[2].inflight # 0
    /\ written_ids = <<1, 2>>

\* The record is in PROCESSING and no invocation is in its run: the run that
\* put it there stopped without a terminal write.
Stuck ==
    /\ \E r \in rows : r.state = PROCESSING
    /\ \A i \in Invs : ~InRun(i)

\* A run stops without a terminal write only when its worker died or its save
\* of FAILED failed, and after a death the record is in PROCESSING for good.
StuckByFailure ==
    /\ Stuck => \E i \in Invs : outcome[i] \in {"died", "raised"}
    /\ \A i \in Invs :
          outcome[i] = "died" =>
             RowById(rows, comparison[i][1].id).state = PROCESSING

\* While the record is stuck it stays stuck: no step changes a row or a blob,
\* and an invocation that ends has returned normally, at the artifact lookup
\* or at the gate, having done no work.
StuckStep ==
    Stuck =>
        /\ Stuck'
        /\ UNCHANGED <<rows, mask_blobs, comparison_blob>>
        /\ \A i \in Invs :
              (pc[i] # "done" /\ pc'[i] = "done") =>
                 /\ outcome'[i] \in {"skipped", "not_found"}
                 /\ exc'[i] = None
                 /\ NoWork(i)
                 /\ effects'[i] = effects[i]
        /\ \A i \in Invs :
              (pc[i] = "gate" /\ pc'[i] # "gate") => outcome'[i] = "skipped"

\* C30: when a run stops without recording a terminal state (its worker dies
\* mid-run, or its save of FAILED fails), the record stays in PROCESSING, and
\* every later invocation for the pair returns as a no-op and leaves the
\* record as it is.
C30_StuckProcessing == []StuckByFailure /\ [][StuckStep]_vars

\* A worker died in its run, and another invocation, which found the record,
\* was turned away at the gate; the record is in PROCESSING.
C30_Witness ==
    /\ Stuck
    /\ \E i, j \in Invs :
          /\ outcome[i] = "died"
          /\ outcome[j] = "skipped"
          /\ "load" \in effects[i]

\* The invocation has ended and its record is in SUCCESS or FAILED, or the
\* handler's save of FAILED failed.
EndedTerminal(i) ==
    /\ pc[i] = "done"
    /\ \/ "save_failed" \in effects[i]
       \/ \E r \in rows : r.state \in {SUCCESS, FAILED}

\* C31: an invocation that put the record into PROCESSING eventually ends
\* with the record in SUCCESS or FAILED, if its worker is not killed, every
\* call it makes returns or raises, and the save of the terminal state
\* succeeds.
C31_RunTerminates == \A i \in Invs : InRun(i) ~> EndedTerminal(i)

\* An invocation that took a FAILED record over at the gate has ended with
\* the record in SUCCESS.
C31_Witness ==
    \E i, j \in Invs :
        /\ i # j
        /\ outcome[i] \in {"raised", "load_failed"}
        /\ ~created[j]
        /\ outcome[j] = "success"
        /\ \E r \in rows : r.state = SUCCESS

\* ------------------------------------------------------------------- C32

\* a comes before b in lexicographic order: at the first position where they
\* differ a has the smaller code point, or a is a proper prefix of b.
NameBefore(a, b) ==
    \E k \in 1..(Len(a) + 1) :
        /\ k <= Len(b)
        /\ \A j \in 1..(k - 1) : a[j] = b[j]
        /\ k <= Len(a) => a[k] < b[k]

Ascending(names) ==
    \A j, k \in 1..Len(names) : j < k => NameBefore(names[j], names[k])

\* The names whose engine request has been written.
Requested(seen) ==
    {n \in DOMAIN seen : seen[n] \in {"compare_failed", "no_output", "same", "differs"}}

\* What the batch scheduler is handed and returns, and what the loops over
\* the added and the removed names iterate.
HandedInOrder ==
    /\ Ascending([k \in 1..Len(Eligible) |-> Eligible[k].name])
    /\ Flatten(Batches) = Eligible
    /\ Ascending(Sorted(Added(head_manifest, base_manifest)))
    /\ Ascending(Sorted(Removed(head_manifest, base_manifest)))
    /\ \A i \in Invs : Ascending(run[i].batch_names)

\* A fetch follows the fetches of all smaller names only, and so does an
\* engine request.
OrderedStep ==
    \A i \in Invs :
        /\ \A n \in DOMAIN run'[i].seen \ DOMAIN run[i].seen :
               \A m \in DOMAIN run[i].seen : NameBefore(m, n)
        /\ \A n \in Requested(run'[i].seen) \ Requested(run[i].seen) :
               \A m \in Requested(run[i].seen) : NameBefore(m, n)

\* C32: within a run the candidates are handed to the batch scheduler,
\* fetched and sent to the engine in strictly ascending order of image name,
\* and the added and the removed names are entered in ascending name order.
C32_AscendingNameOrder == []HandedInOrder /\ [][OrderedStep]_vars

\* Three requests were written over two batches and two added and two
\* removed names are entered.
C32_Witness ==
    /\ Cardinality(Requested(run[1].seen)) = 3
    /\ Cardinality(Added(head_manifest, base_manifest)) = 2
    /\ Cardinality(Removed(head_manifest, base_manifest)) = 2
    /\ pc[1] = "save_success"

\* ------------------------------------------------------------------- C33

PathsOf(request) == {request.before, request.after, request.output}

\* The files of a request are three, and no other request of the call names
\* one of them; the directory exists while the call runs and is gone, with
\* its files, once the call has returned or raised.
FilesApart ==
    /\ \A j \in 1..Len(tmp_requests) :
          /\ Cardinality(PathsOf(tmp_requests[j])) = 3
          /\ \A k \in 1..Len(tmp_requests) :
                j # k => PathsOf(tmp_requests[j]) \cap PathsOf(tmp_requests[k]) = {}
    /\ tmp_pc \in {"returned", "raised"} => tmpdir = "removed" /\ tmp_files = <<>>
    /\ tmp_pc \in {"save_before", "save_after", "request", "await", "read", "exit"}
          => tmpdir = "exists"

\* A request is written when both its input files are in the directory,
\* written by its own pair; an output file is read when the request naming
\* it was answered.
FilesStep ==
    /\ Len(tmp_requests') > Len(tmp_requests) =>
          LET request == tmp_requests'[Len(tmp_requests')]
          IN  /\ {request.before, request.after} \subseteq DOMAIN tmp_files
              /\ tmp_files[request.before] = request.idx
              /\ tmp_files[request.after] = request.idx
              /\ request.output \notin DOMAIN tmp_files
    /\ \A read \in tmp_reads' \ tmp_reads :
          /\ tmp_requests # <<>>
          /\ LET request == tmp_requests[Len(tmp_requests)]
             IN  /\ request.idx = read[1]
                 /\ request.output = read[2]
                 /\ request.answered
                 /\ tmp_files[read[2]] = read[1]

\* C33: both input files of a pair are written before the request naming
\* them is sent and the output file is read only after the response; the
\* files of a pair are distinct from those of every other pair of the call;
\* and the temporary directory is removed when compare_images_batch returns
\* or raises.
C33_FilesOrdered == []FilesApart /\ [][FilesStep]_vars

\* Three requests were written, two pairs had their output file read, and
\* the call returned.
C33_Witness ==
    /\ tmp_pc = "returned"
    /\ Cardinality(tmp_reads) = 2
    /\ Len(tmp_requests) = 3

\* ------------------------------------------------------------------- C34

\* The stdout of the child held has no unread line between calls, and while
\* a request is in flight the one line owed is the answer to that request.
PipeHoldsOwnLine ==
    \A c \in DOMAIN children :
        c = process =>
            IF children[c].inflight = 0 THEN children[c].lines = <<>>
            ELSE children[c].lines = << threads[children[c].inflight].sent >>

\* The line a call reads is the answer to the request that call wrote.
ReadsOwnLine ==
    \A t \in Threads :
        threads[t].pc = "cmp_read" /\ threads'[t].pc = "idle" =>
            LET c == threads[t].proc
            IN  children'[c].lines # children[c].lines =>
                    /\ Head(children[c].lines) = threads[t].sent
                    /\ threads[t].sent = written_ids[Len(written_ids)]

\* C34: the response compare returns, or whose error it raises, is the
\* response to the request written by that same call: with an engine that
\* emits one line per request no call reads the line of an earlier request,
\* also after timeouts, malformed lines and responses with an error.
C34_ResponseMatchesRequest == []PipeHoldsOwnLine /\ [][ReadsOwnLine]_vars

\* A call returned the response to the second request from a child that had
\* answered the first with an error.
C34_Witness ==
    /\ last_call.call = "compare"
    /\ last_call.result = "response"
    /\ request_id = 2
    /\ last_call.child # 0
    /\ children[last_call.child].erred
    /\ children[last_call.child].lines = <<>>

\* ------------------------------------------------------------------- C35

\* The threads inside close, past the lock, with the child they took.
Closing == {t \in Threads : threads[t].pc \in {"close_streams", "close_term", "close_kill"}}

\* A child taken by close has no request in flight, is not the child held,
\* and no compare under way has it as its local.
ClosedChildQuiet ==
    \A t \in Closing :
        LET c == threads[t].proc
        IN  /\ children[c].inflight = 0
            /\ process # c
            /\ \A u \in Threads :
                  threads[u].pc \in {"cmp_write", "cmp_read"} => threads[u].proc # c

\* A request is written to a child no close has taken; and a close that
\* finds no child held changes nothing of the adapter.
CloseApartStep ==
    /\ \A c \in DOMAIN children :
          Len(children'[c].lines) > Len(children[c].lines) =>
              /\ \A t \in Closing : threads[t].proc # c
              /\ children[c].signals = <<>>
    /\ (last_call' # last_call /\ last_call'.call = "close" /\ last_call'.child = 0)
          => /\ process = 0
             /\ UNCHANGED <<process, request_id, lock, children, threads, written_ids>>

\* C35: close never ends a child while a request is in flight on it; a
\* compare that starts after close took the handle writes to a fresh child,
\* never to the one being closed; and close on an adapter that holds no
\* child (closed before, or never started) does nothing.
C35_CloseApartFromCompare == []ClosedChildQuiet /\ [][CloseApartStep]_vars

\* One thread is closing the first child while another has a request in
\* flight on the second.
C35_Witness ==
    \E t \in Closing : \E u \in Threads :
        /\ threads[u].pc = "cmp_read"
        /\ threads[u].proc # threads[t].proc
        /\ children[threads[u].proc].inflight = u

\* ------------------------------------------------------------------- C36

\* The names of a run entered with the fields of a pixel comparison.
ComparedNames(i) ==
    {n \in DOMAIN run[i].image_results : HasDiffFields(run[i].image_results[n])}

\* C36: within one run, two distinct image names that both go through pixel
\* comparison never receive the same diff_mask_key, so the mask stored under
\* the key of a compared image is the mask of that image.
C36_MaskKeysDistinct ==
    \A i \in Invs :
        \A n \in ComparedNames(i) :
            /\ \A m \in ComparedNames(i) :
                  n # m => run[i].image_results[n].diff_mask_key
                              # run[i].image_results[m].diff_mask_key
            /\ mask_blobs[run[i].image_results[n].diff_mask_key].name = n

\* "a.p" and "a.q" were both compared and entered, and the mask stored
\* under the key of "a.p" is the mask of "a.q".
C36_Witness ==
    /\ pc[1] = "save_success"
    /\ {<<97, 46, 112>>, <<97, 46, 113>>} \subseteq ComparedNames(1)
    /\ mask_blobs[run[1].image_results[<<97, 46, 112>>].diff_mask_key].name
          = <<97, 46, 113>>

\* ------------------------------------------------------------------- C37

\* C37: for every pair that passes the oversized check and is compared, the
\* aligned canvas of the comparison, total_pixels = max of the widths times
\* max of the heights, does not exceed MAX_DIFF_PIXELS, the ceiling the
\* eligibility check applies to pixel_count.
C37_CanvasWithinCeiling ==
    \A i \in Invs :
        /\ \A k \in 1..Len(run[i].diff_results) :
              ~run[i].diff_results[k].null =>
                  run[i].diff_results[k].total_pixels <= MAX_DIFF_PIXELS
        /\ \A n \in ComparedNames(i) :
              /\ PixelCountOf(n) <= MAX_DIFF_PIXELS
              /\ run[i].image_results[n].total_pixels <= MAX_DIFF_PIXELS

\* "a.p", 8000 x 5000 in head and 5000 x 8000 in base, passed the check with
\* pixel_count = 40,000,000 and was compared on a canvas of 64,000,000.
C37_Witness ==
    /\ <<97, 46, 112>> \in ComparedNames(1)
    /\ PixelCountOf(<<97, 46, 112>>) = MAX_DIFF_PIXELS
    /\ run[1].image_results[<<97, 46, 112>>].total_pixels = 8000 * 8000
    /\ run[1].image_results[<<97, 46, 112>>].width = 8000
    /\ run[1].image_results[<<97, 46, 112>>].aligned_height = 8000

\* ------------------------------------------------------------------- C38

\* C38: in every reachable state a comparison record in SUCCESS has
\* error_code null, also when an earlier attempt failed and the record was
\* retried, and a record in FAILED has error_code INTERNAL_ERROR.
C38_ErrorCodeFollowsState ==
    \A r \in rows :
        /\ r.state = SUCCESS => r.error_code = None
        /\ r.state = FAILED => r.error_code = INTERNAL_ERROR

\* One invocation left the record FAILED, with its error code, and the
\* invocation that took it over at the gate saved it as SUCCESS with none.
C38_Witness ==
    \E i, j \in Invs :
        /\ i # j
        /\ outcome[i] \in {"raised", "load_failed"}
        /\ comparison[i] # <<>>
        /\ comparison[i][1].state = FAILED
        /\ comparison[i][1].error_code = INTERNAL_ERROR
        /\ ~created[j]
        /\ outcome[j] = "success"
        /\ \E r \in rows : r.state = SUCCESS /\ r.error_code = None

\* ------------------------------------------------------------------- C39

\* C39: at most one compare_snapshots run of the (head, base) pair is doing
\* comparison work at any time, for every interleaving of the invocations
\* with recompare requests, each of which deletes the latest comparison
\* record of the head and dispatches a new invocation.
C39_OneRunWithRecompare == Cardinality({i \in Invs : InRun(i)}) <= 1

\* The first invocation is comparing under a record that a recompare request
\* deleted, and the invocation that request dispatched is comparing under
\* the record it created.
C39_Witness ==
    /\ pc[1] = "compare"
    /\ pc[2] = "compare"
    /\ created[2]
    /\ comparison[1][1].id # comparison[2][1].id
    /\ \A r \in rows : r.id = comparison[2][1].id /\ r.state = PROCESSING
    /\ rows # {}

\* ------------------------------------------------------------------- C40

\* C40: a run in which no matched image is eligible for pixel comparison
\* does not depend on the diff engine: it writes no engine request, it never
\* fails on the engine's start, and once its manifests are loaded it ends in
\* SUCCESS unless a write to the object store or the database fails.
C40_NoCandidatesNoEngine ==
    \A i \in Invs :
        (Eligible = <<>> /\ loaded[i] = "ok") =>
            /\ Requested(run[i].seen) = {}
            /\ exc[i] # "RuntimeError"
            /\ (pc[i] = "done" /\ exc[i] = None) => outcome[i] = "success"

\* A run with only a hash-equal, an added and a removed name ended FAILED
\* because the engine did not start.
C40_Witness ==
    /\ Eligible = <<>>
    /\ loaded[1] = "ok"
    /\ pc[1] = "done"
    /\ outcome[1] = "raised"
    /\ exc[1] = "RuntimeError"
    /\ "spawn" \in effects[1]
    /\ \A r \in rows : r.state = FAILED /\ r.error_code = INTERNAL_ERROR
====
